---- MODULE Spec2Model ----
(***************************************************************************)
(* Appointment lifecycle, wallet ledger and live queue of the clinic       *)
(* backend.  Handlers that run inside session.withTransaction are single   *)
(* atomic steps (MongoDB multi-document transactions: snapshot reads,      *)
(* write-conflict abort and retry, rollback of every write on a throw).    *)
(* Handlers that read and then write outside a transaction are split at    *)
(* the await between the read and the write where that matters.            *)
(***************************************************************************)
EXTENDS Integers, Sequences, FiniteSets, TLC

(* ----------------------------- bounds ---------------------------------- *)
\* the number of requests that commit a change in one behaviour
MaxSteps == 6

(* ------------------------- the fixed catalogue ------------------------- *)
Patients == {"pa", "pb"}
Doctors == {"dx", "dy"}
Hospitals == {"h1", "h2"}
Requests == {"r1", "r2"}

\* User documents the handlers look up: role, isDisabled, isActive, hospitals.
Users ==
    [ pa |-> [role |-> "patient", isDisabled |-> FALSE, isActive |-> TRUE, hospitals |-> {}],
      pb |-> [role |-> "patient", isDisabled |-> FALSE, isActive |-> TRUE, hospitals |-> {}],
      pz |-> [role |-> "patient", isDisabled |-> TRUE, isActive |-> TRUE, hospitals |-> {}],
      dx |-> [role |-> "doctor", isDisabled |-> FALSE, isActive |-> TRUE,
              hospitals |-> {"h1"}],
      dy |-> [role |-> "doctor", isDisabled |-> FALSE, isActive |-> FALSE,
              hospitals |-> {"h1"}],
      dz |-> [role |-> "doctor", isDisabled |-> TRUE, isActive |-> TRUE,
              hospitals |-> {"h1"}],
      sa |-> [role |-> "hospital staff", isDisabled |-> FALSE, isActive |-> TRUE,
              hospitals |-> {"h1"}],
      ma |-> [role |-> "hospital manager", isDisabled |-> FALSE, isActive |-> TRUE,
              hospitals |-> {"h2"}],
      su |-> [role |-> "super admin", isDisabled |-> FALSE, isActive |-> TRUE,
              hospitals |-> {}] ]

UserIds == DOMAIN Users
StaffRoles == {"hospital staff", "hospital manager", "super admin"}

\* hospital.refundPolicyPercentage
RefundPolicy == [h1 |-> 80, h2 |-> 50]
\* appointmentType.cost of the one service in the catalogue
ServiceCost == [checkup |-> 50]
ServiceIds == DOMAIN ServiceCost
\* appointmentType.duration, in minutes
ServiceDuration == [checkup |-> 15]
\* doctor.availability: the working window of each doctor, the same on every
\* day of the week; a doctor who never set one has the default entry
WorkingWindow ==
    [ dx |-> [hospital |-> "h1", isAvailable |-> TRUE,
              startTime |-> <<"0", "9", ":", "3", "0">>,
              endTime |-> <<"1", "0", ":", "3", "0">>],
      dy |-> [hospital |-> "", isAvailable |-> FALSE, startTime |-> <<>>, endTime |-> <<>>],
      dz |-> [hospital |-> "", isAvailable |-> FALSE, startTime |-> <<>>, endTime |-> <<>>] ]
\* doctor.name.en.charAt(0).toUpperCase()
Initial == [dx |-> "X", dy |-> "Y", dz |-> "Z"]

(* ------------------------- the text of a time -------------------------- *)
\* the characters of a time, in the order of their codes
Chars == <<" ", "0", "1", "2", "3", "4", "5", "6", "7", "8", "9", ":", "A", "M", "P",
          "n", "o">>
Code(c) == CHOOSE k \in 1..Len(Chars) : Chars[k] = c
DigitChars == <<"0", "1", "2", "3", "4", "5", "6", "7", "8", "9">>
DigitValue(c) == (CHOOSE k \in 1..Len(DigitChars) : DigitChars[k] = c) - 1

\* Number(text) of a run of digits
RECURSIVE Number(_)
Number(s) ==
    IF s = <<>> THEN 0
    ELSE Number(SubSeq(s, 1, Len(s) - 1)) * 10 + DigitValue(s[Len(s)])

\* the decimal text of a number
RECURSIVE Decimal(_)
Decimal(n) ==
    IF n < 10 THEN <<DigitChars[n + 1]>>
    ELSE Decimal(n \div 10) \o <<DigitChars[(n % 10) + 1]>>

\* padStart(2, '0')
PadStart(s) == IF Len(s) < 2 THEN <<"0">> \o s ELSE s

\* timeStr.includes("AM"), timeStr.includes("PM")
Includes(s, m) == \E k \in 1..(Len(s) - 1) : s[k] = m /\ s[k + 1] = "M"

IndexOf(s, c) == CHOOSE k \in 1..Len(s) : s[k] = c /\ \A j \in 1..(k - 1) : s[j] # c

\* timeToMinutes, appointments.js:1015-1025: a 24-hour text "HH:mm" or a
\* 12-hour text "h:mm AM"
timeToMinutes(s) ==
    IF ~Includes(s, "A") /\ ~Includes(s, "P")
    THEN Number(SubSeq(s, 1, IndexOf(s, ":") - 1)) * 60
         + Number(SubSeq(s, IndexOf(s, ":") + 1, Len(s)))
    ELSE LET hours   == Number(SubSeq(s, 1, IndexOf(s, ":") - 1))
             minutes == Number(SubSeq(s, IndexOf(s, ":") + 1, IndexOf(s, " ") - 1))
             pm      == s[IndexOf(s, " ") + 1] = "P"
             h       == IF pm /\ hours < 12 THEN hours + 12
                        ELSE IF ~pm /\ hours = 12 THEN 0 ELSE hours
         IN h * 60 + minutes

\* minutesToTime, appointments.js:1027-1034: the hour is not padded
minutesToTime(m) ==
    LET hours == m \div 60
        mins  == m % 60
        formattedHours == IF hours % 12 = 0 THEN 12 ELSE hours % 12
    IN Decimal(formattedHours) \o <<":">> \o PadStart(Decimal(mins)) \o <<" ">>
       \o (IF hours >= 12 THEN <<"P", "M">> ELSE <<"A", "M">>)

\* the order of two texts in an index of the store: character by character,
\* by code
RECURSIVE TextBefore(_, _)
TextBefore(a, b) ==
    IF a = <<>> THEN b # <<>>
    ELSE IF b = <<>> THEN FALSE
    ELSE IF Head(a) = Head(b) THEN TextBefore(Tail(a), Tail(b))
    ELSE Code(Head(a)) < Code(Head(b))

\* Calendar days; the clock of the model stands still at midday of Today.
Today == 1
Dates == {1, 2}
\* A time of day is the text the client sends and the store keeps, a sequence
\* of characters.
NineAM == <<"0", "9", ":", "0", "0", " ", "A", "M">>
Times == {NineAM}
\* new Date('YYYY-MM-DD') is midnight of the day; new Date() is now.
DayStart(d) == 2 * d
Now == 2 * Today + 1
\* moment(`${date} ${time}`, 'YYYY-MM-DD h:mm A') as minutes of the day
Minutes(t) == timeToMinutes(t)

Statuses == {"Upcoming", "Completed", "Cancelled", "NoShow", "DoctorCancelled"}
Active == {"Waiting", "Serving", "Held"}
DepositAmounts == {100}

\* the redeem codes an administrator has issued, models/redeemCode
RedeemAmount == [GIFT50 |-> 50]
NoCodesUsed == [c \in DOMAIN RedeemAmount |-> [amount |-> RedeemAmount[c], isUsed |-> FALSE]]
\* String.prototype.toUpperCase on the codes a request may send
ToUpperCase(c) == IF c = "gift50" THEN "GIFT50" ELSE c

VARIABLES
    appts,      \* Appointment collection, in insertion order; the index is _id
    balance,    \* Wallet.balance per patient
    txs,        \* Transaction collection, in insertion order
    queue,      \* QueueItem collection, in insertion order
    clock,      \* number of QueueItems ever created; the next checkInTime
    unavail,    \* doctor.unavailabilityEpisodes
    reqs,       \* requests suspended at an await between a check and a write
    steps,      \* number of requests that have committed a change
    resolved,   \* history: the appointments a resolve-cancellation has committed on
    codes,      \* RedeemCode collection: code -> [amount, isUsed]
    notes,      \* Notification collection, in insertion order
    now,        \* the wall clock, in minutes
    sentFlags,  \* <<appointment, class>>: doctorReminder24hSent, doctorReminder1hSent
    outbox,     \* the reminders the external service has delivered, in order
    prefs,      \* doctor.doctorReminderPreferences, the keys that were saved
    passes,     \* the reminder passes, one slot per origin and class
    lastTick,   \* the minute of the last tick of the scheduler
    failing     \* Notification.create rejects: the notifications are out of reach

\* the state of the reminders
rem == <<now, sentFlags, outbox, prefs, passes, lastTick, failing>>

vars == <<appts, balance, txs, queue, clock, unavail, reqs, steps, resolved, codes,
          notes, rem>>

ApptIds == 1..Len(appts)
Idle == [pc |-> "idle", op |-> "", input |-> <<>>, code |-> 0, beaten |-> FALSE]
\* a request commits a change
Tick == steps < MaxSteps /\ steps' = steps + 1

(* ------------------------------ ledger --------------------------------- *)
RECURSIVE SumTx(_, _, _)
\* sum of the amounts of the transactions of user u with direction ty
SumTx(s, u, ty) ==
    IF s = <<>> THEN 0
    ELSE (IF s[1].user = u /\ s[1].type = ty THEN s[1].amount ELSE 0)
         + SumTx(Tail(s), u, ty)

BalanceChangeSwapped(type, amount) == IF type = "credit" THEN -amount ELSE amount

\* walletService.js:40
BalanceChange(type, amount) == IF type = "credit" THEN amount ELSE -amount

\* walletService.js performDbOperations: the error it throws, "" if none
TxError(bal, u, type, amount) ==
    IF u \notin DOMAIN bal THEN "Wallet not found for this user."
    ELSE IF type = "debit" /\ bal[u] < amount THEN "Insufficient wallet balance."
    ELSE ""

TxDoc(u, amount, type, ttype, ref) ==
    [user |-> u, amount |-> amount, type |-> type, ttype |-> ttype, ref |-> ref]

\* the wallet after $inc, and the ledger after the Transaction insert
TxBalance(bal, u, type, amount) ==
    [bal EXCEPT ![u] = @ + BalanceChange(type, amount)]
TxLedger(led, u, amount, type, ttype, ref) ==
    Append(led, TxDoc(u, amount, type, ttype, ref))

(* --------------------------- notifications ----------------------------- *)
\* notificationSchema.type, models/notification.js:12-16
NotificationTypes == {"appointment", "reminder", "wallet", "system", "emergency"}

\* a mutation of Rethrown: the error of the create reaches the caller
RethrownToCaller(type) ==
    IF failing \/ type \notin NotificationTypes THEN "Notification creation error"
    ELSE ""

\* what the catch of createNotification hands on to the handler that awaits
\* it: nothing, 'return { success: false, error: error.message }'
Rethrown(type) == ""

\* utils/notificationHelper.js createNotification: Notification.create
\* validates the type against the enum; the helper catches the validation
\* error and returns { success: false }, and nothing is stored or sent
CreateNotification(ns, u, type, about) ==
    IF type \in NotificationTypes /\ ~failing
    THEN Append(ns, [user |-> u, type |-> type, about |-> about])
    ELSE ns

(* ------------------------ the reminder catalogue ----------------------- *)
Classes == {"24h", "1h"}
\* the scheduler's tick and POST /api/notifications/trigger-reminders
Origins == {"cron", "manual"}
Slots == Origins \X Classes
ReminderDoctors == {u \in UserIds : Users[u].role = "doctor"}

\* a doctor document that has no doctorReminderPreferences
NeverSaved == [k \in {} |-> TRUE]

\* the grid of the wall clock
StepMinutes == 20
FirstMinute == Today * 24 * 60 + 8 * 60 + 10
LastMinute == FirstMinute + 3 * StepMinutes

IdlePass == [pc |-> "idle", startedAt |-> 0, cands |-> <<>>, idx |-> 1, log |-> <<>>]

NoReminders ==
    /\ now = FirstMinute
    /\ sentFlags = {}
    /\ outbox = <<>>
    /\ prefs = [d \in ReminderDoctors |-> NeverSaved]
    /\ passes = [q \in Slots |-> IdlePass]
    /\ lastTick = 0
    /\ failing = FALSE

(* ------------------------------- Init ---------------------------------- *)
Init ==
    /\ appts = <<>>
    /\ balance = [p \in Patients |-> 0]
    /\ txs = <<>>
    /\ queue = <<>>
    /\ clock = 0
    /\ unavail = [d \in Doctors |-> {}]
    /\ reqs = [r \in Requests |-> Idle]
    /\ steps = 0
    /\ resolved = {}
    /\ codes = NoCodesUsed
    /\ notes = <<>>
    /\ NoReminders

(* --------------------------- wallet routes ----------------------------- *)
\* POST /api/wallet/deposit (authorize('patient'))
Deposit(by, amount) ==
    /\ Users[by].role = "patient"
    /\ IF TxError(balance, by, "credit", amount) = ""
       THEN /\ balance' = TxBalance(balance, by, "credit", amount)
            /\ txs' = TxLedger(txs, by, amount, "credit", "Deposit", "DEPOSIT")
            /\ notes' = CreateNotification(notes, by, "wallet", 0)
            /\ Tick
       ELSE UNCHANGED <<balance, txs, steps, notes>>
    /\ UNCHANGED <<appts, queue, clock, unavail, codes, reqs, resolved, rem>>

\* POST /api/users/:id/add-funds (authorize('hospital manager', 'super admin'))
AddFunds(by, u, amount) ==
    /\ Users[by].role \in {"hospital manager", "super admin"}
    /\ IF u \notin DOMAIN balance
       THEN UNCHANGED <<balance, txs, steps, notes>>
       ELSE /\ balance' = TxBalance(balance, u, "credit", amount)
            /\ txs' = TxLedger(txs, u, amount, "credit", "Deposit", "ADMIN_DEPOSIT")
            /\ notes' = CreateNotification(notes, u, "wallet", 0)
            /\ Tick
    /\ UNCHANGED <<appts, queue, clock, unavail, codes, reqs, resolved, rem>>

\* POST /api/wallet/redeem-code (authorize('patient')), wallet.js:95-106:
\* the look-up of the code and the checks on it, up to the await of the credit
RedeemCheck(r, by, code) ==
    /\ reqs[r].pc = "idle"
    /\ Users[by].role = "patient"
    /\ LET c == ToUpperCase(code)
           status == IF c \notin DOMAIN codes THEN 404
                     ELSE IF codes[c].isUsed THEN 400
                     ELSE 0
       IN reqs' = [reqs EXCEPT ![r] =
              [pc |-> IF status = 0 THEN "checked" ELSE "done", op |-> "redeem",
               input |-> [by |-> by, code |-> c], beaten |-> FALSE, code |-> status]]
    /\ UNCHANGED <<appts, balance, txs, queue, clock, unavail, steps, resolved, codes, notes, rem>>

\* wallet.js:108-149: the credit, then the code is marked as used
RedeemCommit(r) ==
    /\ reqs[r].pc = "checked" /\ reqs[r].op = "redeem"
    /\ LET by == reqs[r].input.by
           c == reqs[r].input.code
       IN IF TxError(balance, by, "credit", codes[c].amount) # ""
          THEN /\ reqs' = [reqs EXCEPT ![r].pc = "done", ![r].code = 500]
               /\ UNCHANGED <<balance, txs, codes, steps, notes>>
          ELSE /\ balance' = TxBalance(balance, by, "credit", codes[c].amount)
               /\ txs' = TxLedger(txs, by, codes[c].amount, "credit", "Deposit", c)
               /\ codes' = [codes EXCEPT ![c].isUsed = TRUE]
               /\ notes' = CreateNotification(notes, by, "wallet", 0)
               /\ reqs' = [reqs EXCEPT ![r].pc = "done", ![r].code = 200]
               /\ Tick
    /\ UNCHANGED <<appts, queue, clock, unavail, resolved, rem>>

(* ------------------------ POST /api/appointments ----------------------- *)
\* appointments.js:340-350, the patient the booking is for, "" if refused
TargetUser(by, patientId) ==
    IF Users[by].role \in StaffRoles THEN patientId
    ELSE IF Users[by].role = "patient" THEN by
    ELSE ""

AbsDiff(a, b) == IF a >= b THEN a - b ELSE b - a

\* appointments.js:355-384, the hard stop on an exact duplicate
ExistingExact(target, doctorId, date, time) ==
    \E i \in ApptIds :
        /\ appts[i].user = target /\ appts[i].status = "Upcoming"
        /\ appts[i].date = date /\ appts[i].time = time
        /\ appts[i].doctor = doctorId

\* appointments.js:386-434, the 60-minute buffer around the patient's
\* other Upcoming appointments of the day
SoftConflict(target, date, time) ==
    \E i \in ApptIds :
        /\ appts[i].user = target /\ appts[i].status = "Upcoming"
        /\ appts[i].date = date
        /\ AbsDiff(Minutes(time), Minutes(appts[i].time)) < 60

\* the response of the checks made before the transaction, 0 to go on
PreCheck(by, patientId, doctorId, date, time, force) ==
    IF Users[by].role \in StaffRoles /\ patientId = "" THEN 400
    ELSE IF Users[by].role \notin StaffRoles /\ Users[by].role # "patient" THEN 403
    ELSE IF ExistingExact(TargetUser(by, patientId), doctorId, date, time) THEN 409
    ELSE IF ~force /\ SoftConflict(TargetUser(by, patientId), date, time) THEN 409
    ELSE 0

\* appointments.js:471-481
IsUnavailable(doctorId, date) ==
    \E ep \in unavail[doctorId] :
        DayStart(date) >= ep.startDate /\ DayStart(date) <= ep.endDate

\* appointments.js:492, the cash deposit is made for staff callers only
CashApplies(by, cash) == cash /\ Users[by].role \in StaffRoles

\* the balance the check of appointments.js:507 reads
BalanceAtCheck(by, target, typeId, cash) ==
    IF CashApplies(by, cash)
    THEN balance[target] + BalanceChange("credit", ServiceCost[typeId])
    ELSE balance[target]

\* Appointment.countDocuments({ doctor, date }) + 1 with the doctor's initial
QueueNumber(doctorId, date) ==
    <<Initial[doctorId],
      Cardinality({i \in ApptIds : appts[i].doctor = doctorId /\ appts[i].date = date}) + 1>>

SlotTakenNever(doctorId, date, time, except) == FALSE

\* the unique index { doctor, date, time } of models/appointment.js:83
SlotTaken(doctorId, date, time, except) ==
    \E i \in ApptIds \ {except} :
        /\ appts[i].doctor = doctorId /\ appts[i].date = date /\ appts[i].time = time

DupKey == "E11000 duplicate key error"

\* the error thrown inside the transaction of appointments.js:446-585,
\* in the order the code checks, "" if the transaction commits
BookError(by, target, doctorId, hospitalId, typeId, date, time, cash) ==
    IF doctorId = "" \/ hospitalId = "" \/ typeId = ""
    THEN "Doctor, hospital, and appointment type must be specified."
    ELSE IF typeId \notin ServiceIds THEN "Invalid appointment type specified."
    ELSE IF doctorId \notin UserIds THEN "Specified doctor not found."
    ELSE IF hospitalId \notin Hospitals THEN "Specified hospital not found."
    ELSE IF target \notin UserIds THEN "Specified patient not found."
    ELSE IF Users[doctorId].isDisabled
    THEN "The selected doctor's account has been disabled."
    ELSE IF Users[target].isDisabled THEN "The patient's account has been disabled."
    ELSE IF doctorId \in DOMAIN unavail /\ IsUnavailable(doctorId, date)
    THEN "The selected doctor is currently unavailable during this period."
    ELSE IF hospitalId \notin Users[doctorId].hospitals
    THEN "Selected doctor does not work at this hospital."
    ELSE IF CashApplies(by, cash)
            /\ TxError(balance, target, "credit", ServiceCost[typeId]) # ""
    THEN TxError(balance, target, "credit", ServiceCost[typeId])
    ELSE IF target \notin DOMAIN balance
            \/ BalanceAtCheck(by, target, typeId, cash) < ServiceCost[typeId]
    THEN "Insufficient wallet balance for patient"
    ELSE IF SlotTaken(doctorId, date, time, 0) THEN DupKey
    ELSE IF TxError([balance EXCEPT ![target] = BalanceAtCheck(by, target, typeId, cash)],
                    target, "debit", ServiceCost[typeId]) # ""
    THEN TxError([balance EXCEPT ![target] = BalanceAtCheck(by, target, typeId, cash)],
                 target, "debit", ServiceCost[typeId])
    ELSE Rethrown("appointment")

\* appointments.js:588-598, the status code of the catch block
BookErrorCode(e) ==
    IF e = DupKey THEN 409
    ELSE IF e \in {"Insufficient wallet balance for patient",
                   "Insufficient wallet balance.",
                   "Specified doctor not found.", "Specified hospital not found.",
                   "Specified patient not found.", "Wallet not found for this user.",
                   "Doctor, hospital, and appointment type must be specified."}
    THEN 400 ELSE 500

NewAppointment(target, doctorId, hospitalId, typeId, date, time) ==
    [user |-> target, doctor |-> doctorId, hospital |-> hospitalId,
     date |-> date, time |-> time, cost |-> ServiceCost[typeId],
     appointmentType |-> typeId,
     status |-> "Upcoming", cancellationResolution |-> "Pending",
     isRefunded |-> FALSE, queueNumber |-> QueueNumber(doctorId, date)]

NewQueueItem(u, doctorId, hospitalId, qn) ==
    [user |-> u, doctor |-> doctorId, hospital |-> hospitalId, queueNumber |-> qn,
     status |-> "Waiting", checkInTime |-> clock + 1]

InQueue(u) == \E k \in 1..Len(queue) : queue[k].user = u /\ queue[k].status \in Active

BookLedgerNoFee(by, target, hospitalId, typeId, cash, id) ==
    IF CashApplies(by, cash)
    THEN TxLedger(txs, target, ServiceCost[typeId], "credit", "Deposit", "CASH")
    ELSE txs

\* the ledger the committed booking leaves: the cash deposit, then the fee
BookLedger(by, target, hospitalId, typeId, cash, id) ==
    LET cost == ServiceCost[typeId]
        afterCash == IF CashApplies(by, cash)
                     THEN TxLedger(txs, target, cost, "credit", "Deposit", "CASH")
                     ELSE txs
    IN TxLedger(afterCash, target, cost, "debit", "Appointment Fee", id)


BookBalanceTwice(by, target, typeId, cash) ==
    [balance EXCEPT ![target] = @ - 2 * ServiceCost[typeId]]

\* the wallet the committed booking leaves
BookBalance(by, target, typeId, cash) ==
    LET cost == ServiceCost[typeId]
        afterCash == IF CashApplies(by, cash)
                     THEN TxBalance(balance, target, "credit", cost)
                     ELSE balance
    IN TxBalance(afterCash, target, "debit", cost)

\* the writes of the transaction of appointments.js:446-585 when it commits
BookEffects(by, target, doctorId, hospitalId, typeId, date, time, cash) ==
    /\ appts' = Append(appts,
           NewAppointment(target, doctorId, hospitalId, typeId, date, time))
    /\ IF date = Today /\ ~InQueue(target)
       THEN /\ queue' = Append(queue, NewQueueItem(target, doctorId, hospitalId,
                                          QueueNumber(doctorId, date)))
            /\ clock' = clock + 1
       ELSE UNCHANGED <<queue, clock>>
    /\ balance' = BookBalance(by, target, typeId, cash)
    /\ txs' = BookLedger(by, target, hospitalId, typeId, cash, Len(appts) + 1)
    /\ notes' = CreateNotification(notes, target, "appointment", Len(appts) + 1)
    /\ Tick

\* the transaction and its rollback when it throws
BookTxn(by, patientId, doctorId, hospitalId, typeId, date, time, cash) ==
    IF BookError(by, TargetUser(by, patientId), doctorId, hospitalId, typeId,
                 date, time, cash) # ""
    THEN UNCHANGED <<appts, balance, txs, queue, clock, steps, notes>>
    ELSE BookEffects(by, TargetUser(by, patientId), doctorId, hospitalId, typeId,
                     date, time, cash)

\* the whole handler, run without another request in between
Book(by, patientId, doctorId, hospitalId, typeId, date, time, cash, force) ==
    /\ \A r \in Requests : reqs[r].pc # "checked"
    /\ IF PreCheck(by, patientId, doctorId, date, time, force) # 0
       THEN UNCHANGED <<appts, balance, txs, queue, clock, steps, notes>>
       ELSE BookTxn(by, patientId, doctorId, hospitalId, typeId, date, time, cash)
    /\ UNCHANGED <<unavail, codes, reqs, resolved, rem>>

\* the body and the caller of a booking request
BookInput(by, p, d, h, t, date, time, cash, force) ==
    [by |-> by, patientId |-> p, doctorId |-> d, hospitalId |-> h, typeId |-> t,
     date |-> date, time |-> time, cash |-> cash, force |-> force]

\* one request for each way a reference can be missing, unknown or disabled
BadBookInputs ==
    { BookInput("sa", "", "dx", "h1", "checkup", 2, NineAM, FALSE, TRUE),
      BookInput("dx", "pa", "dx", "h1", "checkup", 2, NineAM, FALSE, TRUE),
      BookInput("pa", "pa", "", "h1", "checkup", 2, NineAM, FALSE, TRUE),
      BookInput("pa", "pa", "dx", "h1", "ghost", 2, NineAM, FALSE, TRUE),
      BookInput("pa", "pa", "ghost", "h1", "checkup", 2, NineAM, FALSE, TRUE),
      BookInput("pa", "pa", "dx", "ghost", "checkup", 2, NineAM, FALSE, TRUE),
      BookInput("pa", "pa", "dx", "h2", "checkup", 2, NineAM, FALSE, TRUE),
      BookInput("sa", "ghost", "dx", "h1", "checkup", 2, NineAM, TRUE, TRUE),
      BookInput("pa", "pa", "dz", "h1", "checkup", 2, NineAM, FALSE, TRUE),
      BookInput("sa", "pz", "dx", "h1", "checkup", 2, NineAM, TRUE, TRUE),
      BookInput("pa", "pa", "dx", "h1", "checkup", 2, NineAM, TRUE, TRUE) }

(* --------------------- PUT /api/appointments/:id ----------------------- *)
IsPatientOwner(by, id) == Users[by].role = "patient" /\ appts[id].user = by
IsAdminOfHospital(by, id) ==
    Users[by].role \in StaffRoles /\ appts[id].hospital \in Users[by].hospitals

RefundAmountFull(id) == appts[id].cost

\* appointments.js:793
RefundAmount(id) == (appts[id].cost * RefundPolicy[appts[id].hospital]) \div 100

\* appointments.js:792-794, whether the handler credits a refund
CreditsRefund(id, status) ==
    status = "Cancelled" /\ ~appts[id].isRefunded /\ RefundAmount(id) > 0

\* the error thrown inside the transaction of appointments.js:770-857
UpdateError(by, id, status) ==
    IF id \notin ApptIds THEN "Appointment not found."
    ELSE IF ~IsPatientOwner(by, id) /\ ~IsAdminOfHospital(by, id)
    THEN "Not authorized to update this appointment."
    ELSE IF IsPatientOwner(by, id) /\ status # "Cancelled"
    THEN "Patients can only cancel appointments."
    ELSE IF CreditsRefund(id, status)
            /\ TxError(balance, appts[id].user, "credit", RefundAmount(id)) # ""
    THEN TxError(balance, appts[id].user, "credit", RefundAmount(id))
    ELSE IF status = "Cancelled" THEN Rethrown("appointment")
    ELSE ""

UpdateAppointment(by, id, status) ==
    /\ IF UpdateError(by, id, status) # ""
       THEN UNCHANGED <<appts, balance, txs, steps, notes>>
       ELSE /\ appts' = [appts EXCEPT
                   ![id].status = status,
                   ![id].isRefunded = IF status = "Cancelled" THEN TRUE ELSE @]
            /\ IF CreditsRefund(id, status)
               THEN /\ balance' = TxBalance(balance, appts[id].user, "credit",
                                            RefundAmount(id))
                    /\ txs' = TxLedger(txs, appts[id].user, RefundAmount(id),
                                       "credit", "Refund", id)
               ELSE UNCHANGED <<balance, txs>>
            /\ notes' = IF status = "Cancelled"
                        THEN CreateNotification(notes, appts[id].user, "appointment", id)
                        ELSE notes
            /\ Tick
    /\ UNCHANGED <<queue, clock, unavail, codes, reqs, resolved, rem>>

(* ------------------ PUT /api/appointments/:id/status ------------------- *)
\* appointments.js:214-231: any authenticated caller, any status
UpdateStatus(id, status) ==
    /\ id \in ApptIds
    /\ appts' = [appts EXCEPT ![id].status = status]
    /\ Tick
    /\ UNCHANGED <<balance, txs, queue, clock, unavail, codes, reqs, resolved, notes, rem>>

(* ---------------- PUT /api/appointments/doctor-cancel/:id -------------- *)
DoctorCancelError(by, id) ==
    IF Users[by].role \notin ({"doctor"} \cup StaffRoles) THEN "Not authorized"
    ELSE IF id \notin ApptIds THEN "Appointment not found"
    ELSE IF ~(Users[by].role = "doctor" /\ appts[id].doctor = by)
            /\ ~IsAdminOfHospital(by, id)
    THEN "Not authorized to cancel this appointment"
    ELSE ""

\* appointments.js:632-638: the second argument of createNotification, its
\* type, is the title text
DoctorCancelType == "Appointment Cancelled by Doctor"

DoctorCancel(by, id) ==
    /\ IF DoctorCancelError(by, id) # ""
       THEN UNCHANGED <<appts, steps, notes>>
       ELSE /\ appts' = [appts EXCEPT ![id].status = "DoctorCancelled",
                                      ![id].cancellationResolution = "Pending"]
            /\ notes' = CreateNotification(notes, appts[id].user, DoctorCancelType, id)
            /\ Tick
    /\ UNCHANGED <<balance, txs, queue, clock, unavail, codes, reqs, resolved, rem>>

(* ------------- PUT /api/appointments/:id/resolve-cancellation ---------- *)
NoSlot == [date |-> 0, time |-> ""]
\* appointments.js:731-734 and 742-743, the slot the appointment is saved with
ResolvedDate(id, newSlot) == IF newSlot.date # 0 THEN newSlot.date ELSE appts[id].date
ResolvedTime(id, newSlot) == IF newSlot.time # "" THEN newSlot.time ELSE appts[id].time

AlreadyProcessedNever(id) == FALSE

\* appointments.js:679
AlreadyProcessed(id) == appts[id].cancellationResolution # "Pending"

\* the error thrown inside the transaction of appointments.js:670-751
ResolveError(by, id, action, newDoctorId, newSlot) ==
    IF id \notin ApptIds THEN "Appointment not found"
    ELSE IF appts[id].user # by THEN "Not authorized"
    ELSE IF appts[id].status # "DoctorCancelled"
    THEN "This appointment is not cancelled by doctor"
    ELSE IF AlreadyProcessed(id)
    THEN "Resolution already processed"
    ELSE IF action = "Refund"
    THEN (IF appts[id].cost > 0
             /\ TxError(balance, appts[id].user, "credit", appts[id].cost) # ""
          THEN TxError(balance, appts[id].user, "credit", appts[id].cost)
          ELSE Rethrown("appointment"))
    ELSE IF action = "Redirect"
    THEN (IF newDoctorId = "" THEN "New doctor ID is required for redirection"
          ELSE IF SlotTaken(newDoctorId, ResolvedDate(id, newSlot),
                            ResolvedTime(id, newSlot), id) THEN DupKey
          ELSE "")
    ELSE IF action = "Reschedule"
    THEN (IF newSlot.date = 0 \/ newSlot.time = ""
          THEN "New slot (date and time) is required"
          ELSE IF SlotTaken(appts[id].doctor, newSlot.date, newSlot.time, id)
          THEN DupKey
          ELSE "")
    ELSE "Invalid action"

Resolve(by, id, action, newDoctorId, newSlot) ==
    /\ IF ResolveError(by, id, action, newDoctorId, newSlot) # ""
       THEN UNCHANGED <<appts, balance, txs, steps, resolved, notes>>
       ELSE /\ resolved' = resolved \cup {id}
            /\ notes' = IF action = "Refund"
                        THEN CreateNotification(notes, appts[id].user, "appointment", id)
                        ELSE notes
            /\ CASE action = "Refund" ->
                   /\ appts' = [appts EXCEPT ![id].status = "Cancelled",
                                             ![id].isRefunded = TRUE,
                                             ![id].cancellationResolution = "Refunded"]
                   /\ IF appts[id].cost > 0
                      THEN /\ balance' = TxBalance(balance, appts[id].user, "credit",
                                                   appts[id].cost)
                           /\ txs' = TxLedger(txs, appts[id].user, appts[id].cost,
                                              "credit", "Refund", id)
                      ELSE UNCHANGED <<balance, txs>>
              [] action = "Redirect" ->
                   /\ appts' = [appts EXCEPT ![id].doctor = newDoctorId,
                                             ![id].status = "Upcoming",
                                             ![id].cancellationResolution = "Redirected",
                                             ![id].date = ResolvedDate(id, newSlot),
                                             ![id].time = ResolvedTime(id, newSlot)]
                   /\ UNCHANGED <<balance, txs>>
              [] action = "Reschedule" ->
                   /\ appts' = [appts EXCEPT ![id].date = newSlot.date,
                                             ![id].time = newSlot.time,
                                             ![id].status = "Upcoming",
                                             ![id].cancellationResolution = "Rescheduled"]
                   /\ UNCHANGED <<balance, txs>>
            /\ Tick
    /\ UNCHANGED <<queue, clock, unavail, codes, reqs, rem>>

(* ---------------- PUT /api/appointments/:id/reschedule ----------------- *)
RescheduleError(id, date, time) ==
    IF id \notin ApptIds THEN "Appointment not found"
    ELSE IF SlotTaken(appts[id].doctor, date, time, id) THEN DupKey
    ELSE ""

\* QueueItem.findOneAndDelete({ user, doctor, status in Waiting, Held }):
\* the first match in storage order is removed
LeavingIndexes(id) ==
    {k \in 1..Len(queue) : /\ queue[k].user = appts[id].user
                           /\ queue[k].doctor = appts[id].doctor
                           /\ queue[k].status \in {"Waiting", "Held"}}

RemoveAt(s, k) == SubSeq(s, 1, k - 1) \o SubSeq(s, k + 1, Len(s))

Min(S) == CHOOSE x \in S : \A y \in S : x <= y

QueueAfterLeaving(id) ==
    IF appts[id].date = Today /\ LeavingIndexes(id) # {}
    THEN RemoveAt(queue, Min(LeavingIndexes(id)))
    ELSE queue

\* the transaction of appointments.js:239-282
Reschedule(id, date, time) ==
    /\ IF RescheduleError(id, date, time) # ""
       THEN UNCHANGED <<appts, queue, clock, steps>>
       ELSE /\ appts' = [appts EXCEPT
                   ![id].queueNumber = IF date # appts[id].date
                                       THEN QueueNumber(appts[id].doctor, date) ELSE @,
                   ![id].date = date, ![id].time = time, ![id].status = "Upcoming"]
            /\ IF date # appts[id].date /\ date = Today
               THEN /\ queue' = Append(QueueAfterLeaving(id),
                                   NewQueueItem(appts[id].user, appts[id].doctor,
                                       appts[id].hospital,
                                       QueueNumber(appts[id].doctor, date)))
                    /\ clock' = clock + 1
               ELSE /\ queue' = IF date # appts[id].date
                                THEN QueueAfterLeaving(id) ELSE queue
                    /\ UNCHANGED clock
            /\ Tick
    /\ UNCHANGED <<balance, txs, unavail, codes, reqs, resolved, notes, rem>>

(* -------------- POST /api/users/doctors/:id/unavailability ------------- *)
\* users.js:957-961, the appointments the apology loop cancels
Affected(doctorId, until) ==
    {i \in ApptIds : /\ appts[i].doctor = doctorId
                     /\ appts[i].status = "Upcoming"
                     /\ appts[i].date >= Today /\ appts[i].date <= until}

\* users.js:975
UnavailableType == "appointment_cancelled"

\* the appointments of a set in the order of the collection
RECURSIVE SetToSeq(_)
SetToSeq(S) == IF S = {} THEN <<>> ELSE <<Min(S)>> \o SetToSeq(S \ {Min(S)})

\* users.js:965-995, the createNotification of each turn of the apology loop
RECURSIVE ApologyNotes(_, _)
ApologyNotes(ns, ids) ==
    IF ids = <<>> THEN ns
    ELSE ApologyNotes(CreateNotification(ns, appts[Head(ids)].user, UnavailableType,
                                         Head(ids)),
                      Tail(ids))

MarkUnavailable(by, doctorId, until) ==
    /\ Users[by].role \in {"super admin", "hospital manager"}
    /\ doctorId \in Doctors
    /\ unavail' = [unavail EXCEPT ![doctorId] =
                      @ \cup {[startDate |-> Now, endDate |-> DayStart(until)]}]
    /\ appts' = [i \in ApptIds |->
                    IF i \in Affected(doctorId, until)
                    THEN [appts[i] EXCEPT !.status = "DoctorCancelled",
                                          !.cancellationResolution = "Pending"]
                    ELSE appts[i]]
    /\ notes' = ApologyNotes(notes, SetToSeq(Affected(doctorId, until)))
    /\ Tick
    /\ UNCHANGED <<balance, txs, queue, clock, reqs, resolved, codes, rem>>

(* ============ the appointment lifecycle, one request at a time ========= *)
\* pa has deposited 100; bookings are for a later day, so no queue is seeded
LifeDates == {2, 3}
LifeCallers == {"pa", "pb", "sa", "ma", "dx"}

InitLife ==
    /\ appts = <<>>
    /\ balance = [p \in Patients |-> IF p = "pa" THEN 100 ELSE 0]
    /\ txs = <<TxDoc("pa", 100, "credit", "Deposit", "DEPOSIT")>>
    /\ queue = <<>>
    /\ clock = 0
    /\ unavail = [d \in Doctors |-> {}]
    /\ reqs = [r \in Requests |-> Idle]
    /\ steps = 0
    /\ resolved = {}
    /\ codes = NoCodesUsed
    /\ notes = <<>>
    /\ NoReminders

LifeBookInputs ==
    {BookInput("pa", "pa", "dx", "h1", "checkup", 2, NineAM, FALSE, f) :
        f \in BOOLEAN}
    \cup {BookInput("sa", "pa", "dx", "h1", "checkup", 2, NineAM, TRUE, TRUE)}
    \cup BadBookInputs

LifeResolveInputs ==
    {[action |-> a, newDoctorId |-> "", newSlot |-> NoSlot] :
        a \in {"Refund", "Redirect", "Reschedule", "Bogus"}}
    \cup {[action |-> "Redirect", newDoctorId |-> "dy", newSlot |-> NoSlot]}
    \cup {[action |-> "Reschedule", newDoctorId |-> "",
           newSlot |-> [date |-> dt, time |-> NineAM]] : dt \in LifeDates}

NextLife ==
    \/ \E b \in LifeBookInputs :
           Book(b.by, b.patientId, b.doctorId, b.hospitalId, b.typeId,
                b.date, b.time, b.cash, b.force)
    \/ \E by \in LifeCallers, id \in ApptIds, st \in Statuses :
           UpdateAppointment(by, id, st)
    \/ \E id \in ApptIds, st \in Statuses : UpdateStatus(id, st)
    \/ \E by \in LifeCallers, id \in ApptIds : DoctorCancel(by, id)
    \/ \E by \in Patients, id \in ApptIds, i \in LifeResolveInputs :
           Resolve(by, id, i.action, i.newDoctorId, i.newSlot)
    \/ \E id \in ApptIds, d \in LifeDates : Reschedule(id, d, NineAM)
    \/ \E by \in LifeCallers, until \in LifeDates : MarkUnavailable(by, "dx", until)

SpecLife == InitLife /\ [][NextLife]_vars

(* ================= bookings that interleave at their awaits ============ *)
\* the request has passed, or failed, the checks made before the transaction
BookCheck(r, b) ==
    /\ reqs[r].pc = "idle"
    /\ reqs' = [reqs EXCEPT ![r] =
           IF PreCheck(b.by, b.patientId, b.doctorId, b.date, b.time, b.force) # 0
           THEN [pc |-> "done", op |-> "book", input |-> b, beaten |-> FALSE,
                 code |-> PreCheck(b.by, b.patientId, b.doctorId, b.date, b.time,
                                   b.force)]
           ELSE [pc |-> "checked", op |-> "book", input |-> b, beaten |-> FALSE,
                 code |-> 0]]
    /\ UNCHANGED <<appts, balance, txs, queue, clock, unavail, codes, steps, resolved, notes, rem>>

SameSlot(b, c) == b.doctorId = c.doctorId /\ b.date = c.date /\ b.time = c.time

\* the transaction of a suspended request runs; a request suspended on the
\* slot that this one takes is marked as beaten to it
BookCommit(r) ==
    /\ reqs[r].pc = "checked" /\ reqs[r].op = "book"
    /\ LET b == reqs[r].input
           target == TargetUser(b.by, b.patientId)
           e == BookError(b.by, target, b.doctorId, b.hospitalId, b.typeId,
                          b.date, b.time, b.cash)
       IN IF e # ""
          THEN /\ reqs' = [reqs EXCEPT ![r].pc = "done", ![r].code = BookErrorCode(e)]
               /\ UNCHANGED <<appts, balance, txs, queue, clock, steps, notes>>
          ELSE /\ BookEffects(b.by, target, b.doctorId, b.hospitalId, b.typeId,
                              b.date, b.time, b.cash)
               /\ reqs' = [q \in Requests |->
                     IF q = r THEN [reqs[r] EXCEPT !.pc = "done", !.code = 201]
                     ELSE IF reqs[q].pc = "checked" /\ reqs[q].op = "book"
                             /\ SameSlot(reqs[q].input, b)
                     THEN [reqs[q] EXCEPT !.beaten = TRUE]
                     ELSE reqs[q]]
    /\ UNCHANGED <<unavail, codes, resolved, rem>>

\* each patient holds the fee of one booking; Today is a bookable day
InitRace ==
    /\ appts = <<>>
    /\ balance = [p \in Patients |-> 50]
    /\ txs = <<TxDoc("pa", 50, "credit", "Deposit", "DEPOSIT"),
               TxDoc("pb", 50, "credit", "Deposit", "DEPOSIT")>>
    /\ queue = <<>>
    /\ clock = 0
    /\ unavail = [d \in Doctors |-> {}]
    /\ reqs = [r \in Requests |-> Idle]
    /\ steps = 0
    /\ resolved = {}
    /\ codes = NoCodesUsed
    /\ notes = <<>>
    /\ NoReminders

RaceBookInputs ==
    {BookInput(by, by, "dx", "h1", "checkup", date, NineAM, FALSE, f) :
        by \in Patients, date \in Dates, f \in BOOLEAN}
    \cup {BookInput("sa", "pa", "dx", "h1", "checkup", date, NineAM, TRUE, TRUE) :
            date \in Dates}
    \cup {BookInput("pb", "pb", "dy", "h1", "checkup", 2, NineAM, FALSE, TRUE),
          BookInput("pa", "pa", "dz", "h1", "checkup", 2, NineAM, FALSE, TRUE),
          BookInput("pa", "pa", "dx", "h2", "checkup", 2, NineAM, FALSE, TRUE),
          BookInput("dx", "pa", "dx", "h1", "checkup", 2, NineAM, FALSE, TRUE)}

RaceResolveInputs ==
    {[action |-> "Redirect", newDoctorId |-> d, newSlot |-> NoSlot] : d \in Doctors}
    \cup {[action |-> "Reschedule", newDoctorId |-> "",
           newSlot |-> [date |-> dt, time |-> NineAM]] : dt \in Dates}

NextRace ==
    \/ \E r \in Requests, b \in RaceBookInputs : BookCheck(r, b)
    \/ \E r \in Requests : BookCommit(r)
    \/ \E id \in ApptIds, d \in Dates : Reschedule(id, d, NineAM)
    \/ \E by \in Patients, id \in ApptIds, i \in RaceResolveInputs :
           Resolve(by, id, i.action, i.newDoctorId, i.newSlot)
    \/ \E id \in ApptIds, st \in {"Upcoming", "DoctorCancelled"} : UpdateStatus(id, st)

SpecRace == InitRace /\ [][NextRace]_vars

(* ----------------------------- the queue ------------------------------- *)
\* authorize(...) of the staff routes of the queue router
QueueStaffRoles == {"doctor", "hospital staff", "hospital manager", "super admin"}

ActiveEntries(u) ==
    {k \in 1..Len(queue) : queue[k].user = u /\ queue[k].status \in Active}

\* the queue number the queue service computes from the doctor's items
ServiceQueueNumber(doctorId, hospitalId) ==
    <<Initial[doctorId],
      Cardinality({k \in 1..Len(queue) : /\ queue[k].doctor = doctorId
                                         /\ queue[k].hospital = hospitalId}) + 1>>

\* joinQueue: the appointment of today whose queue number is reused
TodaysAppointments(u, doctorId, hospitalId) ==
    {i \in ApptIds : /\ appts[i].user = u /\ appts[i].doctor = doctorId
                     /\ appts[i].hospital = hospitalId
                     /\ appts[i].status = "Upcoming" /\ appts[i].date = Today}

JoinNumber(u, doctorId, hospitalId) ==
    IF TodaysAppointments(u, doctorId, hospitalId) # {}
    THEN appts[Min(TodaysAppointments(u, doctorId, hospitalId))].queueNumber
    ELSE ServiceQueueNumber(doctorId, hospitalId)

\* joinQueue, the check on the doctor
DoctorError(doctorId, hospitalId) ==
    IF \/ doctorId \notin UserIds
       \/ Users[doctorId].role # "doctor"
       \/ hospitalId \notin Users[doctorId].hospitals
    THEN "Doctor not found or not associated with this hospital."
    ELSE ""

\* POST /api/queue/join (authorize('patient')): joinQueue up to the await
\* that follows its look-up of an active entry of the patient
JoinCheck(r, by, doctorId, hospitalId) ==
    /\ reqs[r].pc \in {"idle", "done"}
    /\ Users[by].role = "patient"
    /\ reqs' = [reqs EXCEPT ![r] =
           [pc |-> IF InQueue(by) THEN "done" ELSE "checked", op |-> "join",
            input |-> [by |-> by, doctorId |-> doctorId, hospitalId |-> hospitalId],
            beaten |-> FALSE, code |-> IF InQueue(by) THEN 400 ELSE 0]]
    /\ UNCHANGED <<appts, balance, txs, queue, clock, unavail, codes, steps, resolved, notes, rem>>

\* the rest of joinQueue: the doctor, the queue number, QueueItem.create; a
\* join of the same patient that is suspended after its look-up is marked
JoinCommit(r) ==
    /\ reqs[r].pc = "checked" /\ reqs[r].op = "join"
    /\ LET b == reqs[r].input
       IN IF DoctorError(b.doctorId, b.hospitalId) # ""
          THEN /\ reqs' = [reqs EXCEPT ![r].pc = "done", ![r].code = 500]
               /\ UNCHANGED <<queue, clock, steps>>
          ELSE /\ queue' = Append(queue,
                      NewQueueItem(b.by, b.doctorId, b.hospitalId,
                                   JoinNumber(b.by, b.doctorId, b.hospitalId)))
               /\ clock' = clock + 1
               /\ Tick
               /\ reqs' = [q \in Requests |->
                     IF q = r THEN [reqs[r] EXCEPT !.pc = "done", !.code = 201]
                     ELSE IF reqs[q].pc = "checked" /\ reqs[q].op = "join"
                             /\ reqs[q].input.by = b.by
                     THEN [reqs[q] EXCEPT !.beaten = TRUE]
                     ELSE reqs[q]]
    /\ UNCHANGED <<appts, balance, txs, unavail, codes, resolved, notes, rem>>

\* DELETE /api/queue/leave (authorize('patient')), leaveQueue
LeaveQueue(by) ==
    /\ Users[by].role = "patient"
    /\ LET mine == {k \in 1..Len(queue) : /\ queue[k].user = by
                                          /\ queue[k].status \in {"Waiting", "Held"}}
       IN IF mine = {}
          THEN UNCHANGED <<queue, steps>>
          ELSE queue' = [queue EXCEPT ![Min(mine)].status = "Left"] /\ Tick
    /\ UNCHANGED <<appts, balance, txs, clock, unavail, codes, reqs, resolved, notes, rem>>

Serving(doctorId) ==
    {k \in 1..Len(queue) : queue[k].doctor = doctorId /\ queue[k].status = "Serving"}

Waiting(doctorId) ==
    {k \in 1..Len(queue) : queue[k].doctor = doctorId /\ queue[k].status = "Waiting"}

\* a mutation of FirstWaiting: the waiting item that checked in last
LastWaiting(doctorId) ==
    CHOOSE k \in Waiting(doctorId) :
        \A j \in Waiting(doctorId) : queue[k].checkInTime >= queue[j].checkInTime

\* sort { checkInTime: 1 }: the waiting item that checked in first
FirstWaiting(doctorId) ==
    CHOOSE k \in Waiting(doctorId) :
        \A j \in Waiting(doctorId) : queue[k].checkInTime <= queue[j].checkInTime

\* callNextPatient: the appointment of today that is completed with the visit
VisitOf(k) ==
    {i \in ApptIds : /\ appts[i].user = queue[k].user /\ appts[i].doctor = queue[k].doctor
                     /\ appts[i].status = "Upcoming" /\ appts[i].date = Today}

\* callNextPatient: the patient who is first in line after the call
UpNext(doctorId) ==
    LET rest == Waiting(doctorId) \ {FirstWaiting(doctorId)}
    IN queue[CHOOSE k \in rest :
                \A j \in rest : queue[k].checkInTime <= queue[j].checkInTime].user

\* POST /api/queue/next/:doctorId, callNextPatient
CallNextPatient(by, doctorId) ==
    /\ Users[by].role \in QueueStaffRoles
    /\ Serving(doctorId) # {} \/ Waiting(doctorId) # {}
    /\ LET cur == IF Serving(doctorId) # {} THEN Min(Serving(doctorId)) ELSE 0
           done == IF cur # 0 THEN [queue EXCEPT ![cur].status = "Done"] ELSE queue
       IN /\ queue' = IF Waiting(doctorId) # {}
                      THEN [done EXCEPT ![FirstWaiting(doctorId)].status = "Serving"]
                      ELSE done
          /\ appts' = IF cur # 0 /\ VisitOf(cur) # {}
                      THEN [appts EXCEPT ![Min(VisitOf(cur))].status = "Completed"]
                      ELSE appts
          /\ notes' = IF Cardinality(Waiting(doctorId)) >= 2 /\ UpNext(doctorId) # ""
                      THEN CreateNotification(notes, UpNext(doctorId), "system", 0)
                      ELSE notes
    /\ Tick
    /\ UNCHANGED <<balance, txs, clock, unavail, codes, reqs, resolved, rem>>

\* a mutation of HoldPatient: the status of the item is not looked at
HoldPatientAny(by, k) ==
    /\ Users[by].role \in QueueStaffRoles
    /\ IF k \in 1..Len(queue)
       THEN queue' = [queue EXCEPT ![k].status = "Held"] /\ Tick
       ELSE UNCHANGED <<queue, steps>>
    /\ UNCHANGED <<appts, balance, txs, clock, unavail, codes, reqs, resolved, notes, rem>>

\* POST /api/queue/hold/:queueItemId, holdPatient
HoldPatient(by, k) ==
    /\ Users[by].role \in QueueStaffRoles
    /\ IF k \in 1..Len(queue) /\ queue[k].status \in {"Serving", "Waiting"}
       THEN queue' = [queue EXCEPT ![k].status = "Held"] /\ Tick
       ELSE UNCHANGED <<queue, steps>>
    /\ UNCHANGED <<appts, balance, txs, clock, unavail, codes, reqs, resolved, notes, rem>>

\* POST /api/queue/requeue/:queueItemId, requeuePatient
RequeuePatient(by, k) ==
    /\ Users[by].role \in QueueStaffRoles
    /\ IF k \in 1..Len(queue) /\ queue[k].status = "Held"
       THEN queue' = [queue EXCEPT ![k].status = "Waiting"] /\ Tick
       ELSE UNCHANGED <<queue, steps>>
    /\ UNCHANGED <<appts, balance, txs, clock, unavail, codes, reqs, resolved, notes, rem>>

\* DELETE /api/queue/remove/:queueItemId, removePatientFromQueue
RemovePatientFromQueue(by, k) ==
    /\ Users[by].role \in QueueStaffRoles
    /\ IF k \in 1..Len(queue)
       THEN queue' = [queue EXCEPT ![k].status = "RemovedByAdmin"] /\ Tick
       ELSE UNCHANGED <<queue, steps>>
    /\ UNCHANGED <<appts, balance, txs, clock, unavail, codes, reqs, resolved, notes, rem>>

\* checkInAppointment: the error it throws, "" if none
CheckInError(id) ==
    IF id \notin ApptIds THEN "Appointment not found"
    ELSE IF \E k \in 1..Len(queue) : /\ queue[k].doctor = appts[id].doctor
                                      /\ queue[k].user = appts[id].user
                                      /\ queue[k].status \in Active
    THEN "Patient is already in the queue."
    ELSE ""

\* POST /api/queue/check-in, checkInAppointment
CheckInAppointment(by, id) ==
    /\ Users[by].role \in QueueStaffRoles
    /\ IF CheckInError(id) # ""
       THEN UNCHANGED <<queue, clock, steps>>
       ELSE /\ queue' = Append(queue,
                   NewQueueItem(appts[id].user, appts[id].doctor, appts[id].hospital,
                                appts[id].queueNumber))
            /\ clock' = clock + 1
            /\ Tick
    /\ UNCHANGED <<appts, balance, txs, unavail, codes, reqs, resolved, notes, rem>>

\* getPatientQueueStatus: the Upcoming appointments of the patient dated
\* today, tomorrow or yesterday
AutoJoinCandidates(u) ==
    {i \in ApptIds : /\ appts[i].user = u /\ appts[i].status = "Upcoming"
                     /\ appts[i].date \in {Today, Today + 1, Today - 1}}

\* sort({ date: 1, time: 1 }) and find: the earliest candidate
FirstCandidate(u) ==
    CHOOSE i \in AutoJoinCandidates(u) :
        \A j \in AutoJoinCandidates(u) :
            \/ appts[i].date < appts[j].date
            \/ /\ appts[i].date = appts[j].date
               /\ \/ Minutes(appts[i].time) < Minutes(appts[j].time)
                  \/ Minutes(appts[i].time) = Minutes(appts[j].time) /\ i <= j

\* GET /api/queue/status (authorize('patient')), the auto-join
AutoJoin(by) ==
    /\ Users[by].role = "patient"
    /\ IF InQueue(by) \/ AutoJoinCandidates(by) = {}
       THEN UNCHANGED <<queue, clock, steps>>
       ELSE /\ queue' = Append(queue,
                   NewQueueItem(by, appts[FirstCandidate(by)].doctor,
                                appts[FirstCandidate(by)].hospital,
                                appts[FirstCandidate(by)].queueNumber))
            /\ clock' = clock + 1
            /\ Tick
    /\ UNCHANGED <<appts, balance, txs, unavail, codes, reqs, resolved, notes, rem>>

\* the queue of one patient with two doctors, one request at a time
NextQueue ==
    \/ \E d \in Doctors, h \in Hospitals : JoinCheck("r1", "pa", d, h)
    \/ JoinCommit("r1")
    \/ LeaveQueue("pa")
    \/ \E d \in Doctors : CallNextPatient("sa", d)
    \/ \E k \in 1..Len(queue) : HoldPatient("sa", k)
    \/ \E k \in 1..Len(queue) : RequeuePatient("sa", k)
    \/ \E k \in 1..Len(queue) : RemovePatientFromQueue("sa", k)
    \/ AutoJoin("pa")
    \/ \E id \in ApptIds : CheckInAppointment("sa", id)
    \/ \E d \in Doctors, date \in Dates :
           Book("pa", "pa", d, "h1", "checkup", date, NineAM, FALSE, TRUE)
    \/ \E id \in ApptIds, date \in Dates : Reschedule(id, date, NineAM)

SpecQueue == InitLife /\ [][NextQueue]_vars

\* C5: whatever sequence of join, leave, callNext, hold, resume, check-in,
\* admin remove, auto-join, booking for today and reschedule into today has
\* run, each patient has at most one QueueItem that is Waiting, Serving or
\* Held, counted across all doctors, and a check-in of an appointment of a
\* patient who has an active entry with any doctor is refused.
C5_OneActiveEntry ==
    /\ \A p \in Patients : Cardinality(ActiveEntries(p)) <= 1
    /\ \A id \in ApptIds :
          InQueue(appts[id].user) => CheckInError(id) = "Patient is already in the queue."

\* joins of both patients, two requests in flight
NextJoin ==
    \/ \E r \in Requests, by \in Patients, d \in Doctors : JoinCheck(r, by, d, "h1")
    \/ \E r \in Requests : JoinCommit(r)
    \/ LeaveQueue("pa")

SpecJoin == Init /\ [][NextJoin]_vars

\* C6: of two join requests of one patient that are processed concurrently,
\* for the same or for different doctors, the one whose QueueItem.create runs
\* while the patient has the entry of the other fails with 400 'You are
\* already in a queue.' and creates nothing, so that the patient ends with
\* one active entry.
C6_OneJoinWins ==
    [][\A r \in Requests :
          (/\ reqs[r].pc = "checked" /\ reqs[r].op = "join" /\ reqs[r].beaten
           /\ InQueue(reqs[r].input.by)
           /\ reqs'[r].pc = "done")
          => /\ reqs'[r].code = 400
             /\ UNCHANGED queue
             /\ Cardinality(ActiveEntries(reqs[r].input.by)) = 1]_vars

(* ------------------- every route that moves money ---------------------- *)
LedgerBookInputs ==
    {BookInput("pa", "pa", "dx", "h1", "checkup", 2, NineAM, FALSE, TRUE),
     BookInput("sa", "pb", "dx", "h1", "checkup", 2, NineAM, TRUE, TRUE),
     BookInput("pb", "pb", "dy", "h1", "checkup", 2, NineAM, FALSE, TRUE)}

NextLedger ==
    \/ \E a \in DepositAmounts : Deposit("pa", a)
    \/ \E u \in {"pb", "dx"}, a \in DepositAmounts : AddFunds("ma", u, a)
    \/ \E r \in Requests, by \in Patients, c \in {"gift50", "NOPE"} : RedeemCheck(r, by, c)
    \/ \E r \in Requests : RedeemCommit(r)
    \/ \E r \in Requests, b \in LedgerBookInputs : BookCheck(r, b)
    \/ \E r \in Requests : BookCommit(r)
    \/ \E by \in {"pa", "pb", "sa"}, id \in ApptIds : UpdateAppointment(by, id, "Cancelled")
    \/ \E id \in ApptIds : DoctorCancel("dx", id)
    \/ \E by \in Patients, id \in ApptIds : Resolve(by, id, "Refund", "", NoSlot)

SpecLedger == Init /\ [][NextLedger]_vars

\* C2: after every step of any interleaving of deposits, redeem-code credits,
\* admin add-funds, bookings with or without cash payment, cancellations and
\* doctor-apology refunds, each wallet's balance is the sum of its credit
\* transactions minus the sum of its debit transactions.
C2_BalanceIsLedgerSum ==
    \A p \in Patients : balance[p] = SumTx(txs, p, "credit") - SumTx(txs, p, "debit")

\* a wallet that has seen a deposit, a fee and a refund
C2_Witness ==
    \E p \in Patients :
        /\ \E k \in 1..Len(txs) : txs[k].user = p /\ txs[k].ttype = "Deposit"
        /\ \E k \in 1..Len(txs) : txs[k].user = p /\ txs[k].ttype = "Appointment Fee"
        /\ \E k \in 1..Len(txs) : txs[k].user = p /\ txs[k].ttype = "Refund"
        /\ balance[p] > 0

(* ------------------------- claims on bookings -------------------------- *)
SameKey(i, j) ==
    /\ appts[i].doctor = appts[j].doctor
    /\ appts[i].date = appts[j].date /\ appts[i].time = appts[j].time

NoDoubleBooking ==
    \A i, j \in ApptIds :
        (i # j /\ appts[i].status = "Upcoming" /\ appts[j].status = "Upcoming")
        => ~SameKey(i, j)

\* the transaction of request r runs in this step
Commits(r) == reqs[r].pc = "checked" /\ reqs[r].op = "book" /\ reqs'[r].pc = "done"

\* request r lost a race: while it was suspended after its checks another
\* booking took its slot, and the slot is still taken when its transaction runs
LosesRace(r) ==
    /\ Commits(r) /\ reqs[r].beaten
    /\ SlotTaken(reqs[r].input.doctorId, reqs[r].input.date, reqs[r].input.time, 0)

CoversFee(b) ==
    BalanceAtCheck(b.by, TargetUser(b.by, b.patientId), b.typeId, b.cash)
        >= ServiceCost[b.typeId]

\* C1 as stated: there is at most one Upcoming appointment per doctor, date
\* and time, and of two booking requests that race for one slot the loser
\* receives Conflict (409).
C1_LoserGetsConflict ==
    /\ []NoDoubleBooking
    /\ [][\A r \in Requests : LosesRace(r) => reqs'[r].code = 409]_vars

\* C1 as amended: there is at most one Upcoming appointment per doctor, date
\* and time; of two booking requests that race for one slot the loser commits
\* nothing, and it receives Conflict (409) whenever its references are valid
\* and the wallet still covers the fee: a loser whose wallet the winner's
\* debit has emptied receives 400 Insufficient wallet balance instead.
C1_LoserIsRejected ==
    /\ []NoDoubleBooking
    /\ [][\A r \in Requests : LosesRace(r) =>
            /\ UNCHANGED <<appts, balance, txs, queue>>
            /\ reqs'[r].code \in {409, 400, 500}
            /\ (reqs[r].input.hospitalId = "h1" /\ CoversFee(reqs[r].input))
                  => reqs'[r].code = 409
            /\ (reqs[r].input.hospitalId = "h1" /\ ~CoversFee(reqs[r].input))
                  => reqs'[r].code = 400]_vars

\* two requests raced for one slot: one was created, the other got 409
C1_Witness ==
    \E r, q \in Requests :
        /\ reqs[r].pc = "done" /\ reqs[r].code = 201
        /\ reqs[q].pc = "done" /\ reqs[q].code = 409 /\ reqs[q].beaten
        /\ SameSlot(reqs[r].input, reqs[q].input)

\* C3: no wallet balance is ever negative, and a booking whose fee exceeds
\* the balance fails with 400 and changes neither the balance nor the
\* transaction list, also when its check passed before a concurrent debit.
C3_NeverNegative ==
    /\ [](\A p \in Patients : balance[p] >= 0)
    /\ [][\A r \in Requests :
            (Commits(r) /\ reqs[r].input.by \in Patients
             /\ balance[reqs[r].input.by] < ServiceCost["checkup"])
            => /\ UNCHANGED <<balance, txs>>
               /\ reqs'[r].code # 201
               /\ reqs[r].input.doctorId \in Doctors /\ reqs[r].input.hospitalId = "h1"
                     => reqs'[r].code = 400]_vars

\* two debits of the same patient raced on a balance that covers one
C3_Witness ==
    \E r, q \in Requests :
        /\ r # q
        /\ reqs[r].pc = "done" /\ reqs[r].code = 201
        /\ reqs[q].pc = "done" /\ reqs[q].code = 400
        /\ reqs[r].input.by = reqs[q].input.by
        /\ ~SameSlot(reqs[r].input, reqs[q].input)
        /\ balance[reqs[r].input.by] = 0

FeesOf(led, id) ==
    {k \in 1..Len(led) : /\ led[k].ttype = "Appointment Fee" /\ led[k].type = "debit"
                         /\ led[k].ref = id}

\* C4: a booking is all-or-nothing.  When its transaction commits there is
\* exactly one new appointment, Upcoming, exactly one Appointment Fee debit
\* of the service cost referencing it, and the fee is taken from the balance
\* (after the deposit of the same amount that a staff cash booking credits
\* first); when it throws, no appointment, queue entry, transaction or
\* balance change remains, the cash deposit included.
C4_AllOrNothing ==
    [][\A r \in Requests : Commits(r) =>
         LET b == reqs[r].input
             u == TargetUser(b.by, b.patientId)
             id == Len(appts) + 1
         IN IF reqs'[r].code = 201
            THEN /\ Len(appts') = id
                 /\ appts'[id].status = "Upcoming" /\ appts'[id].user = u
                 /\ appts'[id].cost = ServiceCost[b.typeId]
                 /\ Cardinality(FeesOf(txs', id)) = 1
                 /\ \A k \in FeesOf(txs', id) :
                       txs'[k].amount = ServiceCost[b.typeId] /\ txs'[k].user = u
                 /\ balance'[u] =
                       (IF b.cash /\ b.by = "sa" THEN balance[u] + ServiceCost[b.typeId]
                        ELSE balance[u]) - ServiceCost[b.typeId]
                 /\ Len(txs') = Len(txs) + (IF b.cash /\ b.by = "sa" THEN 2 ELSE 1)
                 /\ \A p \in Patients \ {u} : balance'[p] = balance[p]
            ELSE UNCHANGED <<appts, queue, clock, txs, balance>>]_vars

\* a staff cash booking lost its slot and left no deposit behind, next to a
\* booking that committed
C4_Witness ==
    \E r, q \in Requests :
        /\ reqs[r].pc = "done" /\ reqs[r].code = 201
        /\ reqs[q].pc = "done" /\ reqs[q].code = 409 /\ reqs[q].input.cash
        /\ reqs[q].input.by = "sa"
        /\ Len(txs) = 3 /\ txs[3].ttype = "Appointment Fee"

(* ----------------------- refunds and resolutions ----------------------- *)
RefundsOf(id) ==
    {k \in 1..Len(txs) : txs[k].ttype = "Refund" /\ txs[k].ref = id}

\* C7: for every appointment, at most one Refund credit referencing it is
\* ever applied to the patient's wallet.
C7_AtMostOneRefund == \A id \in ApptIds : Cardinality(RefundsOf(id)) <= 1

\* C8: a patient-initiated cancellation of an appointment whose status is
\* not Upcoming is rejected: the appointment, the wallet balance and the
\* transaction list stay unchanged.
C8_CancelOnlyUpcoming ==
    [][\A id \in ApptIds :
          (appts[id].status # "Upcoming"
           /\ UpdateAppointment(appts[id].user, id, "Cancelled"))
          => UNCHANGED <<appts, balance, txs>>]_vars

\* C9: a cancellation that credits a refund credits cost x the hospital's
\* refundPolicyPercentage / 100, and it credits one whenever the appointment
\* was not refunded before; resolving a doctor-cancelled appointment with
\* Refund credits the full cost whatever the hospital's percentage.
C9_RefundAmounts ==
    [][/\ \A by \in LifeCallers, id \in ApptIds :
            (UpdateAppointment(by, id, "Cancelled") /\ steps' # steps)
            => /\ 100 * (balance'[appts[id].user] - balance[appts[id].user])
                  = IF appts[id].isRefunded THEN 0
                    ELSE appts[id].cost * RefundPolicy[appts[id].hospital]
               /\ \A k \in 1..Len(txs') :
                     k > Len(txs) =>
                        /\ txs'[k].ttype = "Refund" /\ txs'[k].type = "credit"
                        /\ 100 * txs'[k].amount
                           = appts[id].cost * RefundPolicy[appts[id].hospital]
       /\ \A by \in Patients, id \in ApptIds :
            (Resolve(by, id, "Refund", "", NoSlot) /\ steps' # steps)
            => /\ balance'[by] - balance[by] = appts[id].cost
               /\ Len(txs') = Len(txs) + 1
               /\ txs'[Len(txs')].amount = appts[id].cost
               /\ txs'[Len(txs')].ttype = "Refund"]_vars

\* a patient cancellation has credited 40 of 50 at the 80% hospital, and an
\* apology refund has credited the full 50
C9_Witness ==
    /\ \E k \in 1..Len(txs) : txs[k].ttype = "Refund" /\ txs[k].amount = 40
    /\ \E k \in 1..Len(txs) : txs[k].ttype = "Refund" /\ txs[k].amount = 50
                              /\ txs[k].ref \in resolved

\* whether some resolve-cancellation request of the owner would be accepted
ResolveAccepted(id) ==
    \E i \in LifeResolveInputs :
        ResolveError(appts[id].user, id, i.action, i.newDoctorId, i.newSlot) = ""

\* C10 as stated: once a doctor-cancelled appointment has been resolved,
\* every later resolve-cancellation request for it fails.
C10_ResolvedOnce == \A id \in resolved : ~ResolveAccepted(id)

\* C10 as amended: while the sub-state is Rescheduled, Refunded or
\* Redirected every resolve-cancellation request fails, whoever sends it,
\* and only a new doctor-initiated cancellation (of the appointment, or by
\* marking the doctor unavailable) puts the sub-state back to Pending.
C10_ResolvedUntilCancelledAgain ==
    /\ [](\A id \in ApptIds :
            appts[id].cancellationResolution # "Pending" =>
               \A by \in LifeCallers, i \in LifeResolveInputs :
                  ResolveError(by, id, i.action, i.newDoctorId, i.newSlot)
                     \in {"Not authorized",
                          "This appointment is not cancelled by doctor",
                          "Resolution already processed"})
    /\ [][\A id \in ApptIds :
            (appts[id].cancellationResolution # "Pending"
             /\ appts'[id].cancellationResolution = "Pending")
            => \/ \E by \in LifeCallers : DoctorCancel(by, id)
               \/ \E by \in LifeCallers, u \in LifeDates :
                     MarkUnavailable(by, appts[id].doctor, u)]_vars

\* a resolved appointment that is DoctorCancelled again by a status update,
\* so that only the sub-state check stands between it and a second resolution
C10_Witness ==
    \E id \in resolved :
        /\ appts[id].status = "DoctorCancelled"
        /\ appts[id].cancellationResolution = "Refunded"

(* ===================== the status of an appointment ==================== *)
\* the moves of the status the appointment life cycle allows
AllowedMove(a, new) ==
    \/ a.status = "Upcoming"
       /\ new \in {"Completed", "Cancelled", "NoShow", "DoctorCancelled"}
    \/ a.status = "DoctorCancelled" /\ a.cancellationResolution = "Pending"
       /\ new \in {"Cancelled", "Upcoming"}

\* C11: the status of an appointment changes only from Upcoming to Completed,
\* Cancelled, NoShow or DoctorCancelled, and from DoctorCancelled with the
\* resolution Pending to Cancelled or Upcoming: no appointment leaves
\* Completed, Cancelled or NoShow, and DoctorCancelled is entered from
\* Upcoming only
C11_StatusMoves ==
    [][\A i \in ApptIds :
          appts'[i].status # appts[i].status => AllowedMove(appts[i], appts'[i].status)]_vars

(* ===================== the apology of the doctor ======================= *)
\* the notifications a user holds about an appointment
NotesAbout(ns, u, i) == Cardinality({k \in 1..Len(ns) : ns[k].user = u /\ ns[k].about = i})

\* a step of POST /doctors/:id/unavailability
UnavailableStep ==
    \E by \in LifeCallers, dr \in Doctors, until \in LifeDates : MarkUnavailable(by, dr, until)

\* a step of PUT /doctor-cancel/:id that cancels the appointment
DoctorCancelStep(i) ==
    \E by \in LifeCallers : DoctorCancelError(by, i) = "" /\ DoctorCancel(by, i)

\* C12: marking a doctor unavailable turns each of his Upcoming appointments
\* from today to the end date into DoctorCancelled / Pending and gives the
\* patient of each one apology notification; a doctor-cancel request gives
\* the patient of its appointment an apology notification too
C12_ApologySent ==
    [][\A i \in ApptIds :
          /\ UnavailableStep /\ appts[i].status = "Upcoming"
                /\ appts'[i].status = "DoctorCancelled"
             => /\ appts'[i].cancellationResolution = "Pending"
                /\ NotesAbout(notes', appts[i].user, i) = NotesAbout(notes, appts[i].user, i) + 1
          /\ DoctorCancelStep(i)
             => NotesAbout(notes', appts[i].user, i) > NotesAbout(notes, appts[i].user, i)]_vars

(* ========================= the slot allocator ========================== *)
\* new Date() of the allocator, as minutes of the day: midday
CurrentMinutes == 720
\* nextAvailableTime: null
Null == <<>>

\* Appointment.find({ doctor, hospital, date, status: 'Upcoming' })
ExistingAppointments(doctorId, hospitalId, date) ==
    {i \in ApptIds : /\ appts[i].doctor = doctorId /\ appts[i].hospital = hospitalId
                     /\ appts[i].date = date /\ appts[i].status = "Upcoming"}

\* .sort({ time: 1 }) and existingAppointments[length - 1]: the appointment
\* whose time text comes last in the order of the index
LastAppointment(S) ==
    CHOOSE i \in S : \A j \in S :
        \/ TextBefore(appts[j].time, appts[i].time)
        \/ appts[j].time = appts[i].time /\ j <= i

\* the start of the next slot before the window is looked at
NextSlotStart(doctorId, hospitalId, date) ==
    LET S     == ExistingAppointments(doctorId, hospitalId, date)
        start == timeToMinutes(WorkingWindow[doctorId].startTime)
        after == IF S = {} THEN start
                 ELSE LET last == appts[LastAppointment(S)]
                          m    == timeToMinutes(last.time)
                                  + ServiceDuration[last.appointmentType]
                      IN IF m > start THEN m ELSE start
        soon  == CurrentMinutes + 15
    IN IF date = Today /\ after < soon
       THEN IF soon % 5 # 0 THEN soon + (5 - (soon % 5)) ELSE soon
       ELSE after

\* the end of the window, a day later when it is not after the start
DoctorEndMinutes(doctorId) ==
    LET s == timeToMinutes(WorkingWindow[doctorId].startTime)
        e == timeToMinutes(WorkingWindow[doctorId].endTime)
    IN IF e <= s THEN e + 24 * 60 ELSE e

\* GET /api/appointments/availability/doctor/:doctorId
NextAvailable(doctorId, hospitalId, typeId, date) ==
    IF doctorId \notin UserIds \/ typeId \notin ServiceIds
    THEN [code |-> 404, nextAvailableTime |-> Null,
          message |-> "Doctor or appointment type not found."]
    ELSE IF doctorId \in DOMAIN unavail /\ IsUnavailable(doctorId, date)
    THEN [code |-> 200, nextAvailableTime |-> Null,
          message |-> "Doctor is not available on this date."]
    ELSE IF doctorId \notin DOMAIN WorkingWindow
            \/ WorkingWindow[doctorId].hospital # hospitalId
            \/ ~WorkingWindow[doctorId].isAvailable
    THEN [code |-> 200, nextAvailableTime |-> Null,
          message |-> "Doctor is not available at this hospital."]
    ELSE IF NextSlotStart(doctorId, hospitalId, date) + ServiceDuration[typeId]
            > DoctorEndMinutes(doctorId)
    THEN [code |-> 200, nextAvailableTime |-> Null,
          message |-> "Doctor schedule is full for this day."]
    ELSE [code |-> 200,
          nextAvailableTime |-> minutesToTime(NextSlotStart(doctorId, hospitalId, date)),
          message |-> "Available"]

\* the client asks the allocator for a time and books the time it returns
BookReturned(by, patientId, doctorId, hospitalId, typeId, date) ==
    /\ NextAvailable(doctorId, hospitalId, typeId, date).nextAvailableTime # Null
    /\ Book(by, patientId, doctorId, hospitalId, typeId, date,
            NextAvailable(doctorId, hospitalId, typeId, date).nextAvailableTime,
            TRUE, TRUE)

SlotDates == {1, 2, 3}

NextSlots ==
    \/ \E date \in SlotDates : BookReturned("sa", "pa", "dx", "h1", "checkup", date)
    \/ Book("sa", "pb", "dx", "h1", "checkup", Today, NineAM, TRUE, TRUE)
    \/ \E until \in SlotDates : MarkUnavailable("ma", "dx", until)

SpecSlots == Init /\ [][NextSlots]_vars

\* the day an episode was recorded
EpisodeDay(ep) == ep.startDate \div 2

\* the date lies from the day an episode of the doctor was recorded through
\* the end date of the episode
InEpisode(doctorId, date) ==
    \E ep \in unavail[doctorId] : EpisodeDay(ep) <= date /\ DayStart(date) <= ep.endDate

\* C13: while an episode of a doctor is recorded, no booking of that doctor
\* for a date from the day the episode was recorded through its end date is
\* accepted, and the allocator returns no time for such a date, with the
\* message that the doctor is not available on it
C13_EpisodeBlocksBooking ==
    [][/\ \A i \in 1..Len(appts') :
             i > Len(appts) => ~InEpisode(appts'[i].doctor, appts'[i].date)
       /\ \A dr \in Doctors, date \in SlotDates :
             InEpisode(dr, date)
             => NextAvailable(dr, "h1", "checkup", date).message
                  = "Doctor is not available on this date."]_vars

\* the appointments of a doctor at a hospital on a date, whatever their status
BookedOn(doctorId, hospitalId, date) ==
    {i \in ApptIds : /\ appts[i].doctor = doctorId /\ appts[i].hospital = hospitalId
                     /\ appts[i].date = date}

\* the allocator returns the time m, or no time because the day is full
Returns(r, m) ==
    IF m = 0 THEN r.nextAvailableTime = Null
                  /\ r.message = "Doctor schedule is full for this day."
    ELSE r.nextAvailableTime # Null /\ timeToMinutes(r.nextAvailableTime) = m

\* C14: on a date other than today, after k - 1 bookings of the returned time
\* and nothing else, the allocator returns start + (k - 1) * d, and it
\* returns that the schedule is full exactly when start + k * d > end
C14_KthSlot ==
    \A date \in SlotDates \ {Today} :
        LET k     == Cardinality(BookedOn("dx", "h1", date)) + 1
            start == timeToMinutes(WorkingWindow["dx"].startTime)
            d     == ServiceDuration["checkup"]
        IN (/\ unavail["dx"] = {}
            /\ \A i \in BookedOn("dx", "h1", date) : appts[i].status = "Upcoming")
           => Returns(NextAvailable("dx", "h1", "checkup", date),
                      IF start + k * d > DoctorEndMinutes("dx") THEN 0
                      ELSE start + (k - 1) * d)

(* ============================ the reminders ============================ *)
\* everything a reminder pass leaves alone but the appointments' flags
store == <<appts, balance, txs, queue, clock, unavail, reqs, resolved, codes, notes,
          failing>>

\* a text Number() turns into a number: digits only
IsDigits(s) == \A k \in 1..Len(s) : \E j \in 1..Len(DigitChars) : DigitChars[j] = s[k]

\* timePart.split(':')[0]: the text of the hour
HourText(time) ==
    IF \E k \in 1..Len(time) : time[k] = ":"
    THEN SubSeq(time, 1, IndexOf(time, ":") - 1) ELSE time

\* the moment made of "<date> NaN:00": Number() of an hour that is no number
\* is NaN and nothing is thrown; the moment is invalid, isBetween answers
\* false for it (a forgiving reading of the text as midnight of the date
\* lies outside every window of the model as well)
NaN == 0 - 1

\* parseAppointmentDateTime: the minute of an appointment on the wall clock
parseAppointmentDateTime(date, time) ==
    LET colon == IndexOf(time, ":")
    IN IF ~IsDigits(HourText(time)) THEN NaN
       ELSE IF Includes(time, "A") \/ Includes(time, "P")
       THEN LET h  == Number(SubSeq(time, 1, colon - 1))
                m  == Number(SubSeq(time, colon + 1, colon + 2))
                pm == Includes(time, "P")
                hours == IF pm /\ h # 12 THEN h + 12
                         ELSE IF ~pm /\ h = 12 THEN 0 ELSE h
            IN date * 24 * 60 + hours * 60 + m
       ELSE date * 24 * 60 + Number(SubSeq(time, 1, colon - 1)) * 60
            + Number(SubSeq(time, colon + 1, Len(time)))

\* targetTime: now.clone().add(24, 'hours'), now.clone().add(1, 'hour')
Lead(class) == IF class = "24h" THEN 24 * 60 ELSE 60
\* startWindow, endWindow: 30 minutes, 7 minutes, either side of the target
HalfWindow24h == 30
HalfWindow1h == 7
HalfWindow(class) == IF class = "24h" THEN HalfWindow24h ELSE HalfWindow1h

\* a mutation of InWindow: the ends of the window are left out
InWindowOpen(t, startedAt, class) ==
    /\ t # NaN
    /\ t > startedAt + Lead(class) - HalfWindow(class)
    /\ t < startedAt + Lead(class) + HalfWindow(class)

\* appointmentDateTime.isBetween(startWindow, endWindow, null, '[]')
InWindow(t, startedAt, class) ==
    /\ t # NaN
    /\ t >= startedAt + Lead(class) - HalfWindow(class)
    /\ t <= startedAt + Lead(class) + HalfWindow(class)

\* a key of the preferences is there and true
Truthy(p, k) == k \in DOMAIN p /\ p[k]

\* Appointment.find({ status: 'Upcoming', doctorReminder<class>Sent: false })
\* with the doctor populated: what the pass holds of each candidate
Snapshot(i) ==
    [id |-> i, date |-> appts[i].date, time |-> appts[i].time,
     doctor |-> appts[i].doctor, preferences |-> prefs[appts[i].doctor]]

Selected(class) ==
    {i \in ApptIds : appts[i].status = "Upcoming" /\ <<i, class>> \notin sentFlags}

RECURSIVE Snapshots(_)
Snapshots(ids) ==
    IF ids = <<>> THEN <<>> ELSE <<Snapshot(Head(ids))>> \o Snapshots(Tail(ids))

Candidates(class) == Snapshots(SetToSeq(Selected(class)))

\* sendDoctorReminder, the checks before the external call
SendError(c, class) ==
    IF Users[c.doctor].isDisabled \/ ~Users[c.doctor].isActive
    THEN "Doctor account is disabled or inactive"
    ELSE IF ~Truthy(c.preferences, "enabled")
    THEN "Doctor has disabled appointment reminders"
    ELSE IF class = "24h" /\ ~Truthy(c.preferences, "reminder24h")
    THEN "Doctor has disabled 24-hour reminders"
    ELSE IF class = "1h" /\ ~Truthy(c.preferences, "reminder1h")
    THEN "Doctor has disabled 1-hour reminders"
    ELSE ""

\* the pass goes on to its next candidate
Logged(p, outcome) == [p EXCEPT !.idx = @ + 1, !.log = Append(@, outcome)]

\* the loop of process24HourReminders / process1HourReminders from the
\* candidate it stands at to its next await: the external call of a
\* candidate that is in the window and passes the checks, or the summary
RECURSIVE RunLoop(_, _)
RunLoop(p, class) ==
    IF p.idx > Len(p.cands) THEN [p EXCEPT !.pc = "done"]
    ELSE LET c == p.cands[p.idx]
             t == parseAppointmentDateTime(c.date, c.time)
         IN IF ~InWindow(t, p.startedAt, class) \/ t < p.startedAt
            THEN RunLoop(Logged(p, "skipped"), class)
            ELSE IF SendError(c, class) # ""
            THEN RunLoop(Logged(p, "failed"), class)
            ELSE [p EXCEPT !.pc = "sending"]

\* process24HourReminders / process1HourReminders up to the first await of
\* the loop
StartPass(class) ==
    RunLoop([pc |-> "loop", startedAt |-> now, cands |-> Candidates(class),
             idx |-> 1, log |-> <<>>], class)

Running(q) == passes[q].pc \in {"sending", "update"}

\* processAllReminders: Promise.all of the two passes
ProcessAllReminders(o) ==
    /\ \A c \in Classes : ~Running(<<o, c>>)
    /\ passes' = [q \in Slots |-> IF q[1] = o THEN StartPass(q[2]) ELSE passes[q]]

\* cron.schedule('*/15 * * * *', ...)
CronTick ==
    /\ now % 15 = 0 /\ lastTick # now
    /\ ProcessAllReminders("cron")
    /\ lastTick' = now
    /\ UNCHANGED <<store, steps, now, sentFlags, outbox, prefs>>

\* POST /api/notifications/trigger-reminders, ReminderScheduler.triggerNow
TriggerNow(by) ==
    /\ Users[by].role = "super admin"
    /\ ProcessAllReminders("manual")
    /\ Tick
    /\ UNCHANGED <<store, now, sentFlags, outbox, prefs, lastTick>>

\* ExternalNotificationService.sendExternalNotification returns: a channel
\* delivered the reminder (ok) or none did
ExternalDone(q, ok) ==
    /\ passes[q].pc = "sending"
    /\ LET c == passes[q].cands[passes[q].idx]
       IN IF ok
          THEN /\ outbox' = Append(outbox, [appt |-> c.id, class |-> q[2],
                                            doctor |-> c.doctor])
               /\ passes' = [passes EXCEPT ![q].pc = "update"]
          ELSE /\ outbox' = outbox
               /\ passes' = [passes EXCEPT ![q] = RunLoop(Logged(@, "undelivered"), q[2])]
    /\ UNCHANGED <<store, steps, now, sentFlags, prefs, lastTick>>

\* a mutation of FlagsAfter: the flag is not written
FlagsAfterNever(flags, id, class) == flags

\* Appointment.findByIdAndUpdate(appointment._id, { [updateField]: true })
FlagsAfter(flags, id, class) == flags \cup {<<id, class>>}

\* sendDoctorReminder after a delivery: the flag is written and the pass
\* goes on
MarkSent(q) ==
    /\ passes[q].pc = "update"
    /\ sentFlags' = FlagsAfter(sentFlags, passes[q].cands[passes[q].idx].id, q[2])
    /\ passes' = [passes EXCEPT ![q] = RunLoop(Logged(@, "sent"), q[2])]
    /\ UNCHANGED <<store, steps, now, outbox, prefs, lastTick>>

\* time passes
Advance ==
    /\ now < LastMinute
    /\ now' = now + StepMinutes
    /\ UNCHANGED <<store, steps, sentFlags, outbox, prefs, passes, lastTick>>

\* PUT /api/users/profile/doctor-reminders
SavePreferences(by, preferences) ==
    /\ Users[by].role = "doctor"
    /\ prefs' = [prefs EXCEPT ![by] =
                    [k \in DOMAIN @ \cup DOMAIN preferences |->
                        IF k \in DOMAIN preferences THEN preferences[k] ELSE @[k]]]
    /\ Tick
    /\ UNCHANGED <<store, now, sentFlags, outbox, passes, lastTick>>

AllOn == [enabled |-> TRUE, reminder24h |-> TRUE, reminder1h |-> TRUE]
PreferenceInputs == {AllOn, [enabled |-> FALSE]}

HalfPastNine == <<"0", "9", ":", "3", "0", " ", "A", "M">>
TenPastTen == <<"1", "0", ":", "1", "0", " ", "A", "M">>

\* four appointments booked at the desk, paid in cash, before today: two of
\* doctor dx and one of a doctor who is not active tomorrow morning, and one
\* of dx this morning
Booked(u, dr, date, time, n) ==
    [user |-> u, doctor |-> dr, hospital |-> "h1", date |-> date, time |-> time,
     cost |-> ServiceCost["checkup"], appointmentType |-> "checkup",
     status |-> "Upcoming", cancellationResolution |-> "Pending",
     isRefunded |-> FALSE, queueNumber |-> <<Initial[dr], n>>]

InitReminder ==
    /\ appts = <<Booked("pa", "dx", 2, NineAM, 1), Booked("pb", "dx", 2, HalfPastNine, 2),
                 Booked("pa", "dy", 2, NineAM, 1), Booked("pb", "dx", 1, TenPastTen, 1)>>
    /\ balance = [p \in Patients |-> 0]
    /\ txs = <<TxDoc("pa", 50, "credit", "Deposit", "CASH"),
               TxDoc("pa", 50, "debit", "Appointment Fee", 1),
               TxDoc("pb", 50, "credit", "Deposit", "CASH"),
               TxDoc("pb", 50, "debit", "Appointment Fee", 2),
               TxDoc("pa", 50, "credit", "Deposit", "CASH"),
               TxDoc("pa", 50, "debit", "Appointment Fee", 3),
               TxDoc("pb", 50, "credit", "Deposit", "CASH"),
               TxDoc("pb", 50, "debit", "Appointment Fee", 4)>>
    /\ queue = <<>>
    /\ clock = 0
    /\ unavail = [d \in Doctors |-> {}]
    /\ reqs = [r \in Requests |-> Idle]
    /\ steps = 0
    /\ resolved = {}
    /\ codes = NoCodesUsed
    /\ notes = <<[user |-> "pa", type |-> "appointment", about |-> 1],
                 [user |-> "pb", type |-> "appointment", about |-> 2],
                 [user |-> "pa", type |-> "appointment", about |-> 3],
                 [user |-> "pb", type |-> "appointment", about |-> 4]>>
    /\ NoReminders

NextReminder ==
    \/ CronTick
    \/ TriggerNow("su")
    \/ \E q \in Slots, ok \in BOOLEAN : ExternalDone(q, ok)
    \/ \E q \in Slots : MarkSent(q)
    \/ Advance
    \/ \E p \in PreferenceInputs : SavePreferences("dx", p)
    \/ UpdateStatus(2, "Cancelled")

SpecReminder == InitReminder /\ [][NextReminder]_vars

\* the same desk with a fifth appointment of dx, booked for tomorrow with the
\* time written as a word
Noon == <<"n", "o", "o", "n">>

InitTally ==
    /\ appts = <<Booked("pa", "dx", 2, NineAM, 1), Booked("pb", "dx", 2, HalfPastNine, 2),
                 Booked("pa", "dy", 2, NineAM, 1), Booked("pb", "dx", 1, TenPastTen, 1),
                 Booked("pa", "dx", 2, Noon, 3)>>
    /\ balance = [p \in Patients |-> 0]
    /\ txs = <<TxDoc("pa", 50, "credit", "Deposit", "CASH"),
               TxDoc("pa", 50, "debit", "Appointment Fee", 1),
               TxDoc("pb", 50, "credit", "Deposit", "CASH"),
               TxDoc("pb", 50, "debit", "Appointment Fee", 2),
               TxDoc("pa", 50, "credit", "Deposit", "CASH"),
               TxDoc("pa", 50, "debit", "Appointment Fee", 3),
               TxDoc("pb", 50, "credit", "Deposit", "CASH"),
               TxDoc("pb", 50, "debit", "Appointment Fee", 4),
               TxDoc("pa", 50, "credit", "Deposit", "CASH"),
               TxDoc("pa", 50, "debit", "Appointment Fee", 5)>>
    /\ queue = <<>>
    /\ clock = 0
    /\ unavail = [d \in Doctors |-> {}]
    /\ reqs = [r \in Requests |-> Idle]
    /\ steps = 0
    /\ resolved = {}
    /\ codes = NoCodesUsed
    /\ notes = <<[user |-> "pa", type |-> "appointment", about |-> 1],
                 [user |-> "pb", type |-> "appointment", about |-> 2],
                 [user |-> "pa", type |-> "appointment", about |-> 3],
                 [user |-> "pb", type |-> "appointment", about |-> 4],
                 [user |-> "pa", type |-> "appointment", about |-> 5]>>
    /\ NoReminders

SpecTally == InitTally /\ [][NextReminder]_vars

\* runs of the passes that follow one another: a run starts when no pass is
\* at an await
NoPassRunning == \A q \in Slots : ~Running(q)

NextTwice ==
    \/ NoPassRunning /\ CronTick
    \/ NoPassRunning /\ TriggerNow("su")
    \/ \E q \in Slots, ok \in BOOLEAN : ExternalDone(q, ok)
    \/ \E q \in Slots : MarkSent(q)
    \/ Advance
    \/ \E p \in PreferenceInputs : SavePreferences("dx", p)
    \/ UpdateStatus(2, "Cancelled")

SpecTwice == InitReminder /\ [][NextTwice]_vars

\* the store answers the write of the flag; nothing makes the external
\* service answer
SpecHang == SpecReminder /\ WF_vars(\E q \in Slots : MarkSent(q))

\* the reminders of a class delivered for an appointment
Delivered(id, class) ==
    Cardinality({k \in 1..Len(outbox) : outbox[k].appt = id /\ outbox[k].class = class})

\* the candidate a pass stands at
Current(q) == passes[q].cands[passes[q].idx]

\* C15: when runs of a pass follow one another, at most one reminder of a
\* class is delivered for an appointment: once one is delivered the flag of
\* the class is written, and no run sends for an appointment whose flag is
\* written
C15_SecondRunSendsNothing ==
    /\ \A id \in ApptIds, c \in Classes :
          /\ Delivered(id, c) <= 1
          /\ Delivered(id, c) = 1
             => \/ <<id, c>> \in sentFlags
                \/ \E q \in Slots : /\ q[2] = c /\ passes[q].pc = "update"
                                     /\ Current(q).id = id
    /\ \A q \in Slots :
          passes[q].pc = "sending" => <<Current(q).id, q[2]>> \notin sentFlags

\* two runs of a class at the same minute are over: the first delivered the
\* reminder of an appointment, the second did not select that appointment
C15_Witness ==
    \E q1, q2 \in Slots :
        /\ q1 # q2 /\ q1[2] = q2[2]
        /\ passes[q1].pc = "done" /\ passes[q2].pc = "done"
        /\ passes[q1].startedAt = passes[q2].startedAt
        /\ \E k \in 1..Len(passes[q1].log) :
              /\ passes[q1].log[k] = "sent"
              /\ Delivered(passes[q1].cands[k].id, q1[2]) = 1
              /\ \A j \in 1..Len(passes[q2].cands) :
                    passes[q2].cands[j].id # passes[q1].cands[k].id

Ahead(q, k) ==
    parseAppointmentDateTime(passes[q].cands[k].date, passes[q].cands[k].time)
    - passes[q].startedAt

\* the run has come to the external call for its k-th candidate
Dispatched(q, k) ==
    \/ k <= Len(passes[q].log) /\ passes[q].log[k] \in {"sent", "undelivered"}
    \/ k = passes[q].idx /\ Running(q)

\* the run has passed its k-th candidate without the external call
Skipped(q, k) == k <= Len(passes[q].log) /\ passes[q].log[k] = "skipped"

\* the k-th candidate of the run has been looked at
Seen(q, k) == k <= Len(passes[q].log) \/ (k = passes[q].idx /\ Running(q))

Passes24h == {q \in Slots : q[2] = "24h"}

Eligible(id, class) ==
    /\ appts[id].status = "Upcoming"
    /\ ~Users[appts[id].doctor].isDisabled /\ Users[appts[id].doctor].isActive
    /\ Truthy(prefs[appts[id].doctor], "enabled")
    /\ Truthy(prefs[appts[id].doctor], IF class = "24h" THEN "reminder24h" ELSE "reminder1h")

\* the step makes the external call of run q
Dispatches(q) ==
    /\ passes'[q].pc = "sending"
    /\ passes[q].pc # "sending" \/ passes[q].idx # passes'[q].idx

C19_OnByDefault ==
    \A q \in Slots : \A k \in 1..Len(passes[q].cands) :
        LET c == passes[q].cands[k]
        IN (/\ Seen(q, k) /\ c.preferences = NeverSaved
            /\ ~Users[c.doctor].isDisabled /\ Users[c.doctor].isActive
            /\ InWindow(parseAppointmentDateTime(c.date, c.time), passes[q].startedAt, q[2]))
           => Dispatched(q, k)

FailedOutcomes == {"failed", "undelivered"}

C21_FailuresTallied ==
    \A q \in Slots :
        passes[q].pc = "done" =>
            /\ Len(passes[q].log) = Len(passes[q].cands)
            /\ \A k \in 1..Len(passes[q].cands) :
                   /\ passes[q].log[k] \in FailedOutcomes \cup {"sent", "skipped"}
                   /\ parseAppointmentDateTime(passes[q].cands[k].date,
                                               passes[q].cands[k].time) = NaN
                        => passes[q].log[k] \in FailedOutcomes

(* ================== operations while notifications fail ================ *)
\* the notifications go out of reach, or come back
Outage ==
    /\ failing' = ~failing
    /\ UNCHANGED <<appts, balance, txs, queue, clock, unavail, reqs, steps, resolved,
                   codes, notes, now, sentFlags, outbox, prefs, passes, lastTick>>

NotifyBookInputs ==
    {BookInput("pa", "pa", "dx", "h1", "checkup", dt, NineAM, FALSE, TRUE) : dt \in LifeDates}
    \cup {BookInput("sa", "pb", "dx", "h1", "checkup", 3, NineAM, TRUE, TRUE)}

NotifyCallers == {"pa", "sa"}

NextNotify ==
    \/ Outage
    \/ \E b \in NotifyBookInputs :
           Book(b.by, b.patientId, b.doctorId, b.hospitalId, b.typeId,
                b.date, b.time, b.cash, b.force)
    \/ \E by \in NotifyCallers, id \in ApptIds : UpdateAppointment(by, id, "Cancelled")
    \/ \E id \in ApptIds : DoctorCancel("dx", id)
    \/ \E by \in Patients, id \in ApptIds : Resolve(by, id, "Refund", "", NoSlot)

SpecNotify == InitLife /\ [][NextNotify]_vars

(* C22: a failure while creating or dispatching a notification never fails
   or rolls back the operation that triggered it: a booking, a cancellation
   or a doctor-apology refund whose notification step fails is answered as
   it is when the notification succeeds, and never with the error of the
   notification. *)
NotificationError == "Notification creation error"

C22_NotificationNeverFailsCaller ==
    /\ \A b \in NotifyBookInputs :
           BookError(b.by, TargetUser(b.by, b.patientId), b.doctorId, b.hospitalId,
                     b.typeId, b.date, b.time, b.cash) # NotificationError
    /\ \A by \in NotifyCallers, id \in ApptIds :
           UpdateError(by, id, "Cancelled") # NotificationError
    /\ \A by \in Patients, id \in ApptIds :
           ResolveError(by, id, "Refund", "", NoSlot) # NotificationError
    \* what is committed does not depend on the notification: an appointment
    \* has its fee whether or not its confirmation was stored
    /\ \A id \in ApptIds : FeesOf(txs, id) # {}

\* while the notifications fail, a booking has committed with its fee, its
\* doctor has apologised and its refund has been credited, and no
\* notification about it exists
C22_Witness ==
    /\ failing
    /\ \E id \in ApptIds :
           /\ NotesAbout(notes, appts[id].user, id) = 0
           /\ FeesOf(txs, id) # {}
           /\ appts[id].cancellationResolution = "Refunded"
           /\ RefundsOf(id) # {}
    /\ \E id \in ApptIds :
           /\ NotesAbout(notes, appts[id].user, id) = 0
           /\ appts[id].status = "Cancelled"
           /\ appts[id].cancellationResolution = "Pending"
           /\ RefundsOf(id) # {}

(* ====================== the desk of a doctor's queue =================== *)
\* a walk-in has a name and no user
NoUser == ""

\* addWalkInPatient: 'W' and the count of the doctor's items at the hospital
WalkInNumber(doctorId, hospitalId) ==
    <<"W", Cardinality({k \in 1..Len(queue) : /\ queue[k].doctor = doctorId
                                               /\ queue[k].hospital = hospitalId}) + 1>>

\* addWalkInPatient: the hospital of today's availability, else the first
\* hospital of the doctor
HospitalForQueue(doctorId) == CHOOSE h \in Users[doctorId].hospitals : TRUE

\* POST /api/queue/walk-in/:doctorId, addWalkInPatient
AddWalkInPatient(by, doctorId) ==
    /\ Users[by].role \in {"hospital manager", "super admin"}
    /\ IF doctorId \notin UserIds \/ Users[doctorId].hospitals = {}
       THEN UNCHANGED <<queue, clock, steps>>
       ELSE /\ queue' = Append(queue,
                   NewQueueItem(NoUser, doctorId, HospitalForQueue(doctorId),
                                WalkInNumber(doctorId, HospitalForQueue(doctorId))))
            /\ clock' = clock + 1
            /\ Tick
    /\ UNCHANGED <<appts, balance, txs, unavail, codes, reqs, resolved, notes, rem>>

\* callNextPatient up to the await that follows its look-up of the item
\* being served: QueueItem.findOne({ doctor, status: 'Serving' })
CallNextFind(r, by, doctorId) ==
    /\ reqs[r].pc \in {"idle", "done"}
    /\ Users[by].role \in QueueStaffRoles
    /\ reqs' = [reqs EXCEPT ![r] =
           [pc |-> "checked", op |-> "next",
            input |-> [doctorId |-> doctorId,
                       currentServing |-> IF Serving(doctorId) # {}
                                          THEN Min(Serving(doctorId)) ELSE 0],
            beaten |-> FALSE, code |-> 0]]
    /\ UNCHANGED <<appts, balance, txs, queue, clock, unavail, codes, steps, resolved,
                   notes, rem>>

\* the rest of callNextPatient: the item that was read is saved as Done and
\* its appointment completed, QueueItem.findOneAndUpdate promotes the first
\* waiting item, the one after it is told
CallNextCommit(r) ==
    /\ reqs[r].pc = "checked" /\ reqs[r].op = "next"
    /\ LET doctorId == reqs[r].input.doctorId
           cur == reqs[r].input.currentServing
           done == IF cur # 0 THEN [queue EXCEPT ![cur].status = "Done"] ELSE queue
           waiting == {k \in Waiting(doctorId) : k # cur}
           first == CHOOSE k \in waiting :
                        \A j \in waiting : queue[k].checkInTime <= queue[j].checkInTime
           rest == waiting \ {first}
           upNext == CHOOSE k \in rest :
                         \A j \in rest : queue[k].checkInTime <= queue[j].checkInTime
       IN /\ queue' = IF waiting # {} THEN [done EXCEPT ![first].status = "Serving"]
                      ELSE done
          /\ appts' = IF cur # 0 /\ VisitOf(cur) # {}
                      THEN [appts EXCEPT ![Min(VisitOf(cur))].status = "Completed"]
                      ELSE appts
          /\ notes' = IF Cardinality(waiting) >= 2 /\ queue[upNext].user # NoUser
                      THEN CreateNotification(notes, queue[upNext].user, "system", 0)
                      ELSE notes
    /\ reqs' = [reqs EXCEPT ![r].pc = "done", ![r].code = 200]
    /\ Tick
    /\ UNCHANGED <<balance, txs, clock, unavail, codes, resolved, rem>>

\* two patients booked with dx for today, each with a ticket and waiting
InitServe ==
    /\ appts = <<Booked("pa", "dx", Today, NineAM, 1),
                 Booked("pb", "dx", Today, HalfPastNine, 2)>>
    /\ balance = [p \in Patients |-> 0]
    /\ txs = <<TxDoc("pa", 50, "credit", "Deposit", "CASH"),
               TxDoc("pa", 50, "debit", "Appointment Fee", 1),
               TxDoc("pb", 50, "credit", "Deposit", "CASH"),
               TxDoc("pb", 50, "debit", "Appointment Fee", 2)>>
    /\ queue = <<[user |-> "pa", doctor |-> "dx", hospital |-> "h1",
                  queueNumber |-> <<Initial["dx"], 1>>, status |-> "Waiting",
                  checkInTime |-> 1],
                 [user |-> "pb", doctor |-> "dx", hospital |-> "h1",
                  queueNumber |-> <<Initial["dx"], 2>>, status |-> "Waiting",
                  checkInTime |-> 2]>>
    /\ clock = 2
    /\ unavail = [d \in Doctors |-> {}]
    /\ reqs = [r \in Requests |-> Idle]
    /\ steps = 0
    /\ resolved = {}
    /\ codes = NoCodesUsed
    /\ notes = <<[user |-> "pa", type |-> "appointment", about |-> 1],
                 [user |-> "pb", type |-> "appointment", about |-> 2]>>
    /\ NoReminders

\* calls of the next patient that interleave at their awaits
NextCalls ==
    \/ \E r \in Requests : CallNextFind(r, "sa", "dx")
    \/ \E r \in Requests : CallNextCommit(r)
    \/ \E k \in 1..Len(queue) : HoldPatient("sa", k)
    \/ \E k \in 1..Len(queue) : RequeuePatient("sa", k)
    \/ AddWalkInPatient("su", "dx")
    \/ \E id \in ApptIds : CheckInAppointment("sa", id)
    \/ JoinCheck("r1", "pa", "dx", "h1")
    \/ JoinCommit("r1")

SpecCalls == InitServe /\ [][NextCalls]_vars

(* C23: in every reachable state each doctor has at most one QueueItem with
   status Serving, under any sequence and any interleaving of callNext,
   hold, resume, join, check-in and walk-in requests, including two
   concurrent callNext requests for the same doctor. *)
C23_OneServing == \A d \in Doctors : Cardinality(Serving(d)) <= 1

\* the desk, one request at a time
NextServe ==
    \/ \E d \in Doctors : CallNextPatient("sa", d)
    \/ \E k \in 1..Len(queue) : HoldPatient("sa", k)
    \/ \E k \in 1..Len(queue) : RequeuePatient("sa", k)
    \/ \E k \in 1..Len(queue) : RemovePatientFromQueue("sa", k)
    \/ \E p \in Patients : LeaveQueue(p)
    \/ \E d \in Doctors : AddWalkInPatient("su", d)

SpecServe == InitServe /\ [][NextServe]_vars

(* C24: callNext(doctor) moves that doctor's Serving item, if any, to Done
   and marks the same-day Upcoming appointment of its registered patient
   with that doctor Completed, then promotes to Serving the doctor's Waiting
   item with the smallest checkInTime (a resumed item competes with its
   original checkInTime); queue items of other doctors are unchanged. *)
Earliest(S) == CHOOSE k \in S : \A j \in S : queue[k].checkInTime <= queue[j].checkInTime

C24_CallNext ==
    [][\A d \in Doctors :
         CallNextPatient("sa", d) =>
            /\ \A k \in Serving(d) :
                   /\ queue'[k].status = "Done"
                   /\ VisitOf(k) # {} =>
                          \E i \in VisitOf(k) :
                              /\ appts'[i].status = "Completed"
                              /\ \A j \in ApptIds \ {i} : appts'[j] = appts[j]
                   /\ VisitOf(k) = {} => appts' = appts
            /\ Waiting(d) # {} =>
                   /\ queue'[Earliest(Waiting(d))].status = "Serving"
                   /\ \A k \in Waiting(d) \ {Earliest(Waiting(d))} :
                          queue'[k] = queue[k]
            /\ Len(queue') = Len(queue)
            /\ \A k \in 1..Len(queue) :
                   /\ queue[k].doctor # d => queue'[k] = queue[k]
                   /\ queue'[k] = [queue[k] EXCEPT !.status = queue'[k].status]]_vars

\* a call has finished the visit of pb, whose appointment is Completed, and
\* promoted an item that checked in before pb and had been held meanwhile,
\* past a later item that is still waiting
C24_Witness ==
    \E d \in Doctors : \E k \in Serving(d) : \E j \in 1..Len(queue) :
        /\ queue[j].doctor = d /\ queue[j].status = "Done"
        /\ queue[j].checkInTime > queue[k].checkInTime
        /\ \E i \in ApptIds : /\ appts[i].user = queue[j].user /\ appts[i].doctor = d
                               /\ appts[i].status = "Completed"
        /\ \E w \in Waiting(d) : queue[w].checkInTime > queue[j].checkInTime

(* C25: hold succeeds only on an item whose status is Waiting or Serving
   and sets it to Held; resume succeeds only on an item whose status is Held
   and sets it to Waiting; both leave the item's checkInTime, ticket number,
   doctor and patient unchanged, and on an illegal status they fail and
   change nothing. *)
OnlyStatusOf(k, status) ==
    /\ queue' = [queue EXCEPT ![k].status = status]
    /\ UNCHANGED <<appts, balance, txs, clock, notes>>

ChangesNothing == UNCHANGED <<appts, balance, txs, queue, clock, notes, steps>>

C25_HoldAndResume ==
    [][\A k \in 1..Len(queue) :
         /\ HoldPatient("sa", k) =>
                IF queue[k].status \in {"Waiting", "Serving"}
                THEN OnlyStatusOf(k, "Held") ELSE ChangesNothing
         /\ RequeuePatient("sa", k) =>
                IF queue[k].status = "Held"
                THEN OnlyStatusOf(k, "Waiting") ELSE ChangesNothing]_vars

\* an item that checked in first was held and resumed and waits again, with
\* its checkInTime, behind a later item that is being served, while another
\* item is on hold
C25_Witness ==
    \E k, j, h \in 1..Len(queue) :
        /\ queue[k].doctor = queue[j].doctor
        /\ queue[k].status = "Waiting" /\ queue[j].status = "Serving"
        /\ queue[k].checkInTime < queue[j].checkInTime
        /\ queue[h].status = "Held"

(* C26: once a QueueItem's status is Done, Left or RemovedByAdmin it never
   changes again under any sequence of leave, callNext, hold, resume and
   admin remove requests. *)
Terminal == {"Done", "Left", "RemovedByAdmin"}

C26_TerminalStays ==
    [][\A k \in 1..Len(queue) :
         queue[k].status \in Terminal => queue'[k].status = queue[k].status]_vars

(* ================== who may change an appointment ====================== *)
\* router.use(protect): the routes of the appointments take any caller who
\* is logged in; PUT /:id/status and PUT /:id/reschedule read nothing else
\* of the caller
UpdateStatusBy(by, id, status) == by \in UserIds /\ UpdateStatus(id, status)
RescheduleBy(by, id, date, time) == by \in UserIds /\ Reschedule(id, date, time)

(* C27: an appointment's status, date or time is changed only by a request
   from its owning patient or from staff belonging to the appointment's
   hospital, and a request made by a patient can never set an appointment
   to any status other than Cancelled; any other caller gets Unauthorized
   and the appointment is unchanged. *)
MayChange(by, id) == IsPatientOwner(by, id) \/ IsAdminOfHospital(by, id)

Guarded(by, id) ==
    /\ ~MayChange(by, id) => appts'[id] = appts[id]
    /\ Users[by].role = "patient" =>
           appts'[id].status \in {appts[id].status, "Cancelled"}

C27_OnlyOwnerOrStaff ==
    [][\A by \in LifeCallers, id \in ApptIds :
         /\ \A st \in Statuses :
                UpdateAppointment(by, id, st) \/ UpdateStatusBy(by, id, st)
                    => Guarded(by, id)
         /\ \A d \in LifeDates : RescheduleBy(by, id, d, NineAM) => Guarded(by, id)]_vars

(* C28: in every reachable state, every appointment with status Upcoming
   is fully paid: the Appointment Fee debits referencing it minus the Refund
   credits referencing it equal its cost, so an appointment that has been
   refunded never becomes Upcoming again without a new debit. *)
RECURSIVE AmountOf(_)
AmountOf(S) ==
    IF S = {} THEN 0
    ELSE LET k == CHOOSE x \in S : TRUE IN txs[k].amount + AmountOf(S \ {k})

PaidFor(id) == AmountOf(FeesOf(txs, id)) - AmountOf(RefundsOf(id))

C28_UpcomingIsPaid ==
    \A id \in ApptIds : appts[id].status = "Upcoming" => PaidFor(id) = appts[id].cost

(* C29: a redeem code credits a wallet at most once in total: under any
   interleaving of redeem requests for the same code (by one or several
   patients) exactly one Deposit credit of the code's amount is recorded and
   every other request fails with 'This code has already been used.'. *)
CreditsOf(c) ==
    {k \in 1..Len(txs) : /\ txs[k].ttype = "Deposit" /\ txs[k].type = "credit"
                         /\ txs[k].ref = c}

Redeemed(c) == {r \in Requests : /\ reqs[r].op = "redeem" /\ reqs[r].pc = "done"
                                 /\ reqs[r].input.code = c /\ reqs[r].code = 200}

C29_CodeCreditsOnce ==
    \A c \in DOMAIN codes :
        /\ Cardinality(CreditsOf(c)) <= 1
        /\ Cardinality(Redeemed(c)) <= 1
        /\ codes[c].isUsed => Cardinality(CreditsOf(c)) = 1

(* ================= the tickets of a doctor's day ======================= *)
TicketDates == {2, 3}
TicketTimes == {NineAM, HalfPastNine}

\* the desk books for two patients and appointments are moved
NextTickets ==
    \/ \E p \in Patients, date \in TicketDates, time \in TicketTimes :
           Book("sa", p, "dx", "h1", "checkup", date, time, TRUE, TRUE)
    \/ \E id \in ApptIds, date \in TicketDates, time \in TicketTimes :
           Reschedule(id, date, time)

SpecTickets == InitLife /\ [][NextTickets]_vars

(* C30: after any sequence of bookings and reschedules, no two appointments
   of the same doctor on the same date carry the same queue ticket number. *)
C30_TicketsDiffer ==
    \A i, j \in ApptIds :
        /\ i # j /\ appts[i].doctor = appts[j].doctor /\ appts[i].date = appts[j].date
        => appts[i].queueNumber # appts[j].queueNumber

====
